---- MODULE Spec2Model ----
(***************************************************************************)
(* A model of the sargassum beach-risk scorer (beaches.py) and of the      *)
(* shared SQLite store it reads (drift_predictions, written by             *)
(* sargassum_collector.py) and writes (beach_risk_scores, read by          *)
(* print_report and by the dashboard's load_beach_scores).                 *)
(*                                                                         *)
(* Numbers are fixed point: distances in metres, closest_km in 1/100 km,   *)
(* est_count in 1/100, scores in 1/1000, density in 1/10^6, Gaussian       *)
(* weights in 1/10^6, active_fraction in 1/10^4, coordinates in 1/10^4     *)
(* degree.  Timestamps are whole seconds of a clock that ticks in          *)
(* fractions of a second.                                                  *)
(***************************************************************************)
EXTENDS Integers, Sequences, FiniteSets

VARIABLES
    now,            \* wall clock, in ticks (TicksPerSecond ticks a second)
    driftTable,     \* does table drift_predictions exist in the store
    drift,          \* committed rows of drift_predictions
    scoreCols,      \* columns of beach_risk_scores ({} = the table is absent)
    scores,         \* committed rows of beach_risk_scores
    wpc,            \* compute_beach_scores: position of the writer
    wconn,          \* the writer's connection: its open transaction and locals
    wret,           \* value returned by the last compute_beach_scores ("none", a count, or a raise)
    wlog,           \* history: what each invocation set out to insert
    rpc,            \* print_report / load_beach_scores: position of the reader
    rconn,          \* the reader's locals: kind, last, the rows it obtained
    calls,          \* how many invocations of writer and reader have started
    sb,             \* _score_beach and risk_label called on their own: arguments and results
    main,           \* the command line of beaches.py: position, flag, output, exit status
    dbfile,         \* the store file: its journal mode, and history of the ALTER TABLEs run on it
    simulate,       \* sargassum_collector.simulate_drift: position, locals, what it wrote
    ra,             \* sargassum_collector.run_all: position, ok count, calls made
    cam             \* sargassum_webcam_capture: table webcam_captures and the capture_image call

vars == <<now, driftTable, drift, scoreCols, scores, wpc, wconn, wret, wlog,
          rpc, rconn, calls, sb, main, dbfile, simulate, ra, cam>>

\* A nullable value is NULL or Val(v)
NULL == <<>>
Val(v) == <<v>>

----------------------------------------------------------------------------
(* Bounds of the model *)

NBeaches == 2          \* the first NBeaches entries of BEACHES are scored
MaxInvocations == 2    \* invocations of compute_beach_scores in one behaviour
MaxReads == 1          \* reports rendered in one behaviour
MaxTicks == 2          \* the clock stops after this many ticks
TicksPerSecond == 2    \* clock resolution, in ticks per second
MaxCopies == 2         \* rows drift_predictions holds for one (simulated_at, day_offset)

----------------------------------------------------------------------------
(* Configuration of beaches.py *)

DAY_OFFSETS == <<0, 1, 2, 3>>

\* BEACHES, radius in metres, coordinates in 1/10^4 degree
BEACHES == <<
    [name |-> "Flamands",   lat |-> 179067, lon |-> -628467, radius_m |-> 3000],
    [name |-> "Colombier",  lat |-> 179033, lon |-> -628600, radius_m |-> 2000],
    [name |-> "Saint-Jean", lat |-> 179000, lon |-> -628267, radius_m |-> 4000],
    [name |-> "Lorient",    lat |-> 179000, lon |-> -628100, radius_m |-> 3000] >>

Beaches == 1..NBeaches

\* RISK_THRESHOLDS, in 1/1000
RISK_LOW == 5000
RISK_MEDIUM == 25000
RISK_HIGH == 75000

\* The sample points of the model, [lon, lat]:
\*   1 = [-62.8467, 17.9067]   2 = [-62.85, 17.90]
\*   3 = [-62.90, 17.95]       4 = [-62.40, 17.60]
Points == 1..4

\* Besides BEACHES, _score_beach is called for one more site, given by its
\* coordinates: (17.90, -62.85), radius_km = 3.0.  It has the row after BEACHES in
\* the tables below.
ScenarioBeach == Len(BEACHES) + 1

\* And for a site at the centroid of Saint-Jean with radius_km = 2.466, a radius
\* that is no multiple of 0.01 km; it has the last row of the tables.
BoundarySite == Len(BEACHES) + 2

RadiusOf(b) ==
    IF b \in DOMAIN BEACHES THEN BEACHES[b].radius_m
    ELSE IF b = ScenarioBeach THEN 3000 ELSE 2466

\* haversine_km(beach, point) in metres, per beach and point
DistM == <<
    <<0, 823, 7415, 58317>>,
    <<1457, 1120, 6699, 59249>>,
    <<2244, 2465, 9542, 56167>>,
    <<3954, 4232, 11026, 54754>>,
    <<823, 0, 7674, 58171>>,
    <<2244, 2465, 9542, 56167>> >>

\* round(haversine_km(beach, point), 2) in 1/100 km
DistCm == <<
    <<0, 82, 741, 5832>>,
    <<146, 112, 670, 5925>>,
    <<224, 247, 954, 5617>>,
    <<395, 423, 1103, 5475>>,
    <<82, 0, 767, 5817>>,
    <<224, 247, 954, 5617>> >>

\* exp(-0.5 * (d / radius_km) ** 2) in 1/10^6, per beach (its own radius) and point
LocalG == <<
    <<1000000, 963090, 47152, 0>>,
    <<766887, 854891, 3664, 0>>,
    <<854454, 827002, 58116, 0>>,
    <<419543, 369640, 1166, 0>>,
    <<963090, 1000000, 37936, 0>>,
    <<661100, 606671, 561, 0>> >>

\* exp(-0.5 * (d / REGIONAL_SIGMA) ** 2) in 1/10^6
RegG == <<
    <<1000000, 999865, 989064, 506532>>,
    <<999575, 999749, 991065, 495546>>,
    <<998994, 998785, 981955, 532086>>,
    <<996878, 996424, 975978, 549026>>,
    <<999865, 1000000, 988290, 508256>>,
    <<998994, 998785, 981955, 532086>> >>

\* math.pi * radius_km ** 2 in 1/10^6 km2, for a radius in metres
CatchmentArea(radius_m) ==
    CASE radius_m = 0    -> 0
      [] radius_m = 2000 -> 12566371
      [] radius_m = 2466 -> 19104515
      [] radius_m = 3000 -> 28274334
      [] radius_m = 4000 -> 50265482

----------------------------------------------------------------------------
(* Arithmetic *)

\* round(n / d) for n >= 0, d > 0: Python's round, ties to the even neighbour
RoundDiv(n, d) ==
    LET q == n \div d
        r == n % d
    IN  IF 2 * r > d \/ (2 * r = d /\ q % 2 = 1) THEN q + 1 ELSE q

RECURSIVE SetMax(_)
SetMax(S) ==
    LET x == CHOOSE y \in S : TRUE
    IN  IF S = {x} THEN x
        ELSE LET m == SetMax(S \ {x}) IN IF x > m THEN x ELSE m

----------------------------------------------------------------------------
(* Position lists.  A parsed positions value is a sequence of entries:      *)
(*   [k |-> "pt", p |-> i]   a [lon, lat] pair of numbers, point i          *)
(*   [k |-> "short"]         an entry with fewer than 2 elements            *)
(*   [k |-> "nonnum"]        2 elements that float() does not convert       *)

MaxLen == 2            \* longest position list of the model

PtEntries == {[k |-> "pt", p |-> i] : i \in Points}
Entries == PtEntries \cup {[k |-> "short"], [k |-> "nonnum"]}

SeqsUpTo(S, n) == UNION {[1..m -> S] : m \in 0..n}

\* A ratio n_active / n_sample is kept as a fraction
Ratio(n, d) == [num |-> n, den |-> d]

----------------------------------------------------------------------------
(* beaches.py: scoring *)

\* Long division: quotient and remainder of (q * d + r) * 10^k by d, digit by digit
RECURSIVE LongDiv(_, _, _, _)
LongDiv(q, r, d, k) ==
    IF k = 0 THEN [q |-> q, r |-> r]
    ELSE LongDiv(q * 10 + (r * 10) \div d, (r * 10) % d, d, k - 1)

\* round(est_count / catchment_area, 6) in 1/10^6 (est in 1/100, area in
\* 1/10^6 km2): est * 10^10 / area, ties to the even neighbour
DensityRound(est, area) ==
    LET x == LongDiv(est \div area, est % area, area, 10)
    IN  IF 2 * x.r > area \/ (2 * x.r = area /\ x.q % 2 = 1) THEN x.q + 1 ELSE x.q

\* The loop with "min_dist = d" in place of "if d < min_dist: min_dist = d"
RECURSIVE ScoreLoopLastDist(_, _, _, _, _)
ScoreLoopLastDist(positions, i, b, radius_m, acc) ==
    IF i > Len(positions) THEN acc
    ELSE LET pt == positions[i] IN
         IF pt.k = "short" THEN ScoreLoopLastDist(positions, i + 1, b, radius_m, acc)
         ELSE IF pt.k = "nonnum" THEN [acc EXCEPT !.raised = "ValueError"]
         ELSE LET d == DistM[b][pt.p]
                  acc1 == [acc EXCEPT
                             !.min_dist = Val(d),
                             !.min_pt = pt.p,
                             !.sample_count = IF d <= radius_m THEN @ + 1 ELSE @]
              IN  IF radius_m = 0
                  THEN [acc1 EXCEPT !.raised = "ZeroDivisionError"]
                  ELSE ScoreLoopLastDist(positions, i + 1, b, radius_m,
                                         [acc1 EXCEPT !.local_sum = @ + LocalG[b][pt.p],
                                                      !.reg_sum = @ + RegG[b][pt.p]])

\* The loop with a count that lacks the test d <= radius_km
RECURSIVE ScoreLoopCountAll(_, _, _, _, _)
ScoreLoopCountAll(positions, i, b, radius_m, acc) ==
    IF i > Len(positions) THEN acc
    ELSE LET pt == positions[i] IN
         IF pt.k = "short" THEN ScoreLoopCountAll(positions, i + 1, b, radius_m, acc)
         ELSE IF pt.k = "nonnum" THEN [acc EXCEPT !.raised = "ValueError"]
         ELSE LET d == DistM[b][pt.p]
                  closer == acc.min_dist = NULL \/ d < acc.min_dist[1]
                  acc1 == [acc EXCEPT
                             !.min_dist = IF closer THEN Val(d) ELSE @,
                             !.min_pt = IF closer THEN pt.p ELSE @,
                             !.sample_count = @ + 1]
              IN  IF radius_m = 0
                  THEN [acc1 EXCEPT !.raised = "ZeroDivisionError"]
                  ELSE ScoreLoopCountAll(positions, i + 1, b, radius_m,
                                         [acc1 EXCEPT !.local_sum = @ + LocalG[b][pt.p],
                                                      !.reg_sum = @ + RegG[b][pt.p]])

\* The loop of _score_beach over positions[i..]: acc holds sample_count, the two
\* Gaussian sums, min_dist (metres, NULL for math.inf) and the point that gave it.
RECURSIVE ScoreLoop(_, _, _, _, _)
ScoreLoop(positions, i, b, radius_m, acc) ==
    IF i > Len(positions) THEN acc
    ELSE LET pt == positions[i] IN
         IF pt.k = "short" THEN ScoreLoop(positions, i + 1, b, radius_m, acc)
         ELSE IF pt.k = "nonnum" THEN [acc EXCEPT !.raised = "ValueError"]
         ELSE LET d == DistM[b][pt.p]
                  closer == acc.min_dist = NULL \/ d < acc.min_dist[1]
                  acc1 == [acc EXCEPT
                             !.min_dist = IF closer THEN Val(d) ELSE @,
                             !.min_pt = IF closer THEN pt.p ELSE @,
                             !.sample_count = IF d <= radius_m THEN @ + 1 ELSE @]
              IN  IF radius_m = 0
                  THEN [acc1 EXCEPT !.raised = "ZeroDivisionError"]
                  ELSE ScoreLoop(positions, i + 1, b, radius_m,
                                 [acc1 EXCEPT !.local_sum = @ + LocalG[b][pt.p],
                                              !.reg_sum = @ + RegG[b][pt.p]])

\* The initial accumulator of the loop
NoAcc == [raised |-> "none", sample_count |-> 0, local_sum |-> 0, reg_sum |-> 0,
          min_dist |-> NULL, min_pt |-> 0]

\* _score_beach with a local_score that is not multiplied by ratio
score_beachLocalUnscaled(positions, b, radius_m, ratio) ==
    LET acc == ScoreLoop(positions, 1, b, radius_m, NoAcc)
        est == RoundDiv(acc.sample_count * ratio.num * 100, ratio.den)
        area == CatchmentArea(radius_m)
    IN  IF acc.raised # "none" THEN [raised |-> acc.raised]
        ELSE [raised |-> "none",
              sample_count |-> acc.sample_count,
              est_count |-> est,
              local_score |-> RoundDiv(acc.local_sum, 1000),
              regional_score |-> RoundDiv(acc.reg_sum * ratio.num, ratio.den * 1000),
              closest_km |-> IF acc.min_dist = NULL THEN NULL ELSE Val(DistCm[b][acc.min_pt]),
              density_km2 |-> IF area > 0 THEN DensityRound(est, area) ELSE 0]

\* _score_beach with min_dist starting at 0.0 instead of math.inf
score_beachMinDistZero(positions, b, radius_m, ratio) ==
    LET acc == ScoreLoop(positions, 1, b, radius_m, NoAcc)
        est == RoundDiv(acc.sample_count * ratio.num * 100, ratio.den)
        area == CatchmentArea(radius_m)
    IN  IF acc.raised # "none" THEN [raised |-> acc.raised]
        ELSE [raised |-> "none",
              sample_count |-> acc.sample_count,
              est_count |-> est,
              local_score |-> RoundDiv(acc.local_sum * ratio.num, ratio.den * 1000),
              regional_score |-> RoundDiv(acc.reg_sum * ratio.num, ratio.den * 1000),
              closest_km |-> Val(0),
              density_km2 |-> IF area > 0 THEN DensityRound(est, area) ELSE 0]

\* _score_beach(positions, beach_lat, beach_lon, radius_km, ratio), the beach
\* given by its index b; the result carries raised = "none" or the exception.
score_beach(positions, b, radius_m, ratio) ==
    LET acc == ScoreLoop(positions, 1, b, radius_m, NoAcc)
        est == RoundDiv(acc.sample_count * ratio.num * 100, ratio.den)
        area == CatchmentArea(radius_m)
    IN  IF acc.raised # "none" THEN [raised |-> acc.raised]
        ELSE [raised |-> "none",
              sample_count |-> acc.sample_count,
              est_count |-> est,
              local_score |-> RoundDiv(acc.local_sum * ratio.num, ratio.den * 1000),
              regional_score |-> RoundDiv(acc.reg_sum * ratio.num, ratio.den * 1000),
              closest_km |-> IF acc.min_dist = NULL THEN NULL ELSE Val(DistCm[b][acc.min_pt]),
              density_km2 |-> IF area > 0 THEN DensityRound(est, area) ELSE 0]

\* risk_label with > where the code has >=
risk_labelStrict(regional_score) ==
    IF regional_score > RISK_HIGH THEN "high"
    ELSE IF regional_score > RISK_MEDIUM THEN "medium"
    ELSE IF regional_score > RISK_LOW THEN "low"
    ELSE "none"

\* risk_label(regional_score), the score in 1/1000
risk_label(regional_score) ==
    IF regional_score >= RISK_HIGH THEN "high"
    ELSE IF regional_score >= RISK_MEDIUM THEN "medium"
    ELSE IF regional_score >= RISK_LOW THEN "low"
    ELSE "none"

----------------------------------------------------------------------------
(* The store: drift_predictions *)

\* Values of the TEXT column positions_json
JNull == [kind |-> "null", items |-> <<>>]         \* SQL NULL
JEmpty == [kind |-> "empty", items |-> <<>>]       \* the empty string
JGarbage == [kind |-> "garbage", items |-> <<>>]   \* text that is no JSON
JScalar == [kind |-> "scalar", items |-> <<>>]     \* JSON, but a number and no array
JArray(items) == [kind |-> "array", items |-> items]

\* A row of drift_predictions (the columns compute_beach_scores reads)
DriftRow(id, sim, day, np, af, pj) ==
    [id |-> id, simulated_at |-> sim, day_offset |-> day, n_particles |-> np,
     active_fraction |-> af, positions_json |-> pj]

\* json.loads(text): the parsed value, or the exception it raises
json_loads(pj) ==
    CASE pj.kind = "null"    -> [raised |-> "TypeError", list |-> FALSE, items |-> <<>>]
      [] pj.kind = "empty"   -> [raised |-> "JSONDecodeError", list |-> FALSE, items |-> <<>>]
      [] pj.kind = "garbage" -> [raised |-> "JSONDecodeError", list |-> FALSE, items |-> <<>>]
      [] pj.kind = "scalar"  -> [raised |-> "none", list |-> FALSE, items |-> <<>>]
      [] pj.kind = "array"   -> [raised |-> "none", list |-> TRUE, items |-> pj.items]

\* json.loads(snap["positions_json"]) with neither the "or" nor the except clause
LoadPositionsUnguarded(pj) == json_loads(pj)

\* try: positions = json.loads(snap["positions_json"] or "[]")
\* except (json.JSONDecodeError, TypeError): positions = []
LoadPositions(pj) ==
    LET text == IF pj.kind \in {"null", "empty"} THEN JArray(<<>>) ELSE pj
        r == json_loads(text)
    IN  IF r.raised \in {"JSONDecodeError", "TypeError"}
        THEN [raised |-> "none", list |-> TRUE, items |-> <<>>]
        ELSE r

\* x or 0, for a nullable number
OrZero(x) == IF x = NULL THEN 0 ELSE x[1]

----------------------------------------------------------------------------
(* The store: beach_risk_scores *)

\* _NEW_COLUMNS, and the columns of the initial version of the table
NewCols == {"local_score", "regional_score", "closest_km", "density_km2"}
BaseCols == {"id", "computed_at", "simulated_at", "beach_name", "beach_lat",
             "beach_lon", "radius_km", "day_offset", "sample_count", "n_sample",
             "n_active", "n_particles", "est_count", "risk_level"}
AllCols == BaseCols \cup NewCols

\* ALTER TABLE ... ADD COLUMN: the rows read NULL in the added columns
AddColumns(rows, cols) ==
    {[c \in (DOMAIN r) \cup cols |-> IF c \in DOMAIN r THEN r[c] ELSE NULL] : r \in rows}

\* _get_conn: CREATE TABLE IF NOT EXISTS, then each column of _NEW_COLUMNS that
\* PRAGMA table_info does not list is added; the columns and rows afterwards
GetConnCols(cols) == IF cols = {} THEN AllCols ELSE cols \cup NewCols

\* A migration that recreates a table lacking columns instead of altering it
GetConnRowsRecreate(cols, rows) == IF NewCols \subseteq cols THEN rows ELSE {}

GetConnRows(cols, rows) == AddColumns(rows, GetConnCols(cols) \ cols)

\* A schema script that drops and recreates the tables it finds
SchemaDriftRecreated(rows) == {}

\* executescript(_SCHEMA) names beach_risk_scores and its indexes only: the rows
\* of drift_predictions after it
SchemaDrift(rows) == rows

\* The loop over _NEW_COLUMNS without its test "if col not in existing"
MissingColsUnchecked(cols) == NewCols

\* The columns the loop over _NEW_COLUMNS adds with ALTER TABLE: those that
\* PRAGMA table_info does not list once CREATE TABLE IF NOT EXISTS has run
MissingCols(cols) == NewCols \ (IF cols = {} THEN AllCols ELSE cols)

\* _get_conn as the file records it: one more open, and its ALTER TABLEs.
\* _get_conn runs no PRAGMA journal_mode, the journal mode stays what it was.
GetConnFile(f, cols) ==
    LET added == MissingCols(cols)
    IN  [f EXCEPT !.first = IF @ = "none" THEN "beaches" ELSE @,
                  !.pre = cols, !.opens = @ + 1, !.last = added,
                  !.alters = [c \in NewCols |-> IF c \in added THEN @[c] + 1 ELSE @[c]]]

MaxId(rows) == IF rows = {} THEN 0 ELSE SetMax({r.id : r \in rows})

\* A tuple whose risk_level is derived from local_score
ScoreTupleLocalRisk(computed_at, simulated_at, b, day, s, n_sample, n_active, n_particles) ==
    [computed_at |-> computed_at, simulated_at |-> simulated_at,
     beach_name |-> BEACHES[b].name, beach_lat |-> BEACHES[b].lat,
     beach_lon |-> BEACHES[b].lon, radius_km |-> BEACHES[b].radius_m,
     day_offset |-> day, sample_count |-> s.sample_count,
     n_sample |-> Val(n_sample), n_active |-> Val(n_active),
     n_particles |-> Val(n_particles), est_count |-> Val(s.est_count),
     local_score |-> Val(s.local_score), regional_score |-> Val(s.regional_score),
     closest_km |-> s.closest_km, density_km2 |-> Val(s.density_km2),
     risk_level |-> risk_label(s.local_score)]

\* One tuple of rows_to_insert (the id is given by the table on insert)
ScoreTuple(computed_at, simulated_at, b, day, s, n_sample, n_active, n_particles) ==
    [computed_at |-> computed_at, simulated_at |-> simulated_at,
     beach_name |-> BEACHES[b].name, beach_lat |-> BEACHES[b].lat,
     beach_lon |-> BEACHES[b].lon, radius_km |-> BEACHES[b].radius_m,
     day_offset |-> day, sample_count |-> s.sample_count,
     n_sample |-> Val(n_sample), n_active |-> Val(n_active),
     n_particles |-> Val(n_particles), est_count |-> Val(s.est_count),
     local_score |-> Val(s.local_score), regional_score |-> Val(s.regional_score),
     closest_km |-> s.closest_km, density_km2 |-> Val(s.density_km2),
     risk_level |-> risk_label(s.regional_score)]

\* INSERT INTO beach_risk_scores (...) VALUES (...): the row with its AUTOINCREMENT id
WithId(t, id) == [c \in (DOMAIN t) \cup {"id"} |-> IF c = "id" THEN id ELSE t[c]]

----------------------------------------------------------------------------
(* beaches.py: compute_beach_scores, the computation of rows_to_insert *)

\* SELECT ... ORDER BY day_offset: the rows as a sequence (rowid order within a day)
RECURSIVE SortedSnaps(_)
SortedSnaps(S) ==
    IF S = {} THEN <<>>
    ELSE LET first == CHOOSE r \in S : \A q \in S :
                          \/ r.day_offset < q.day_offset
                          \/ (r.day_offset = q.day_offset /\ r.id <= q.id)
         IN  <<first>> \o SortedSnaps(S \ {first})

\* A condition on day_offset that every day meets
InDayOffsetsAny(d) == TRUE

\* day_offset IN (DAY_OFFSETS)
InDayOffsets(d) == \E k \in DOMAIN DAY_OFFSETS : DAY_OFFSETS[k] = d

\* The snapshot query with "simulated_at >= ?" for its simulated_at condition
SelectSnapsSince(rows, simulated_at) ==
    SortedSnaps({r \in rows : r.simulated_at >= simulated_at /\ InDayOffsets(r.day_offset)})

\* The snapshot query without its simulated_at condition
SelectSnapsAnySim(rows, simulated_at) ==
    SortedSnaps({r \in rows : InDayOffsets(r.day_offset)})

\* SELECT ... WHERE simulated_at = ? AND day_offset IN (DAY_OFFSETS) ORDER BY day_offset
SelectSnapsQuery(rows, simulated_at) ==
    SortedSnaps({r \in rows : r.simulated_at = simulated_at /\ InDayOffsets(r.day_offset)})

\* The inner loop over BEACHES for one snapshot: the tuples, or the exception
RECURSIVE BeachLoop(_, _, _, _, _, _, _, _, _)
BeachLoop(b, positions, ratio, computed_at, simulated_at, day, n_sample, n_active, n_particles) ==
    IF b > NBeaches THEN [raised |-> "none", rows |-> <<>>]
    ELSE LET s == score_beach(positions, b, BEACHES[b].radius_m, ratio) IN
         IF s.raised # "none" THEN [raised |-> s.raised, rows |-> <<>>]
         ELSE LET rest == BeachLoop(b + 1, positions, ratio, computed_at, simulated_at,
                                    day, n_sample, n_active, n_particles)
              IN  IF rest.raised # "none" THEN rest
                  ELSE [raised |-> "none",
                        rows |-> <<ScoreTuple(computed_at, simulated_at, b, day, s,
                                              n_sample, n_active, n_particles)>>
                                 \o rest.rows]

\* The body with n_sample the number of distinct positions
SnapRowsDistinct(snap, computed_at, simulated_at) ==
    LET n_particles == OrZero(snap.n_particles)
        act_frac == OrZero(snap.active_fraction)
        n_active == RoundDiv(n_particles * act_frac, 10000)
        loaded == LoadPositions(snap.positions_json)
    IN  IF loaded.raised # "none" THEN [raised |-> loaded.raised, rows |-> <<>>]
        ELSE IF ~loaded.list THEN [raised |-> "TypeError", rows |-> <<>>]
        ELSE LET positions == loaded.items
                 n_sample == Cardinality({positions[i] : i \in DOMAIN positions})
                 ratio == IF n_sample > 0 THEN Ratio(n_active, n_sample) ELSE Ratio(0, 1)
             IN  BeachLoop(1, positions, ratio, computed_at, simulated_at,
                           snap.day_offset, n_sample, n_active, n_particles)

\* The body of "for snap in snaps" for one snapshot
SnapRows(snap, computed_at, simulated_at) ==
    LET n_particles == OrZero(snap.n_particles)
        act_frac == OrZero(snap.active_fraction)
        n_active == RoundDiv(n_particles * act_frac, 10000)
        loaded == LoadPositions(snap.positions_json)
    IN  IF loaded.raised # "none" THEN [raised |-> loaded.raised, rows |-> <<>>]
        ELSE IF ~loaded.list THEN [raised |-> "TypeError", rows |-> <<>>]
        ELSE LET positions == loaded.items
                 n_sample == Len(positions)
                 ratio == IF n_sample > 0 THEN Ratio(n_active, n_sample) ELSE Ratio(0, 1)
             IN  BeachLoop(1, positions, ratio, computed_at, simulated_at,
                           snap.day_offset, n_sample, n_active, n_particles)

\* The loop over snaps[k..]: rows_to_insert, or the exception and the snapshot
\* whose processing raised it
RECURSIVE SnapLoop(_, _, _, _)
SnapLoop(snaps, k, computed_at, simulated_at) ==
    IF k > Len(snaps) THEN [raised |-> "none", at |-> 0, rows |-> <<>>]
    ELSE LET one == SnapRows(snaps[k], computed_at, simulated_at) IN
         IF one.raised # "none" THEN [raised |-> one.raised, at |-> k, rows |-> <<>>]
         ELSE LET rest == SnapLoop(snaps, k + 1, computed_at, simulated_at)
              IN  IF rest.raised # "none" THEN rest
                  ELSE [raised |-> "none", at |-> 0, rows |-> one.rows \o rest.rows]

\* datetime.now(timezone.utc).strftime("%Y-%m-%dT%H:%M:%SZ"): the clock cut to the second
Timestamp(t) == t \div TicksPerSecond

----------------------------------------------------------------------------
(* State *)

NoConn == [simulated_at |-> 0, computed_at |-> 0, snaps |-> <<>>, rows |-> <<>>,
           i |-> 0, tx |-> {}, seen |-> {}]
NoRet == [status |-> "none", n |-> 0, exc |-> "none"]
Returned(n) == [status |-> "returned", n |-> n, exc |-> "none"]
Raised(exc) == [status |-> "raised", n |-> 0, exc |-> exc]
NoRead == [kind |-> "none", last |-> NULL, rows |-> {}, shown |-> {}, out |-> "none"]
NoScore == [pc |-> "none", positions |-> <<>>, beach |-> 1, radius_m |-> 0,
            ratio |-> Ratio(0, 1), result |-> [raised |-> "none"],
            twice |-> [raised |-> "none"], score |-> 0, level |-> "unset"]
NoMain == [pc |-> "idle", flag |-> "none", out |-> <<>>, exit |-> NULL,
           before |-> [drift |-> {}, scores |-> {}]]

\* The store file.  journal is its journal mode, which a PRAGMA journal_mode = WAL
\* changes for good; the other fields record the migrations of _get_conn: the
\* program that opened the file first, the
\* columns of beach_risk_scores at the start (cols0) and before the latest open
\* (pre), the number of opens, the ALTER TABLEs of the latest open (last) and the
\* number of ALTER TABLEs run for each column (alters).
NewFile(journal, cols) ==
    [journal |-> journal, first |-> IF journal = "wal" THEN "collector" ELSE "none",
     cols0 |-> cols, pre |-> cols, opens |-> 0, last |-> {},
     alters |-> [c \in NewCols |-> 0]]
NoSim == [pc |-> "idle", simulated_at |-> 0, day |-> 0, n_particles |-> 0,
          lost |-> 0, log |-> <<>>, n_act |-> 0, idx |-> <<>>]
NoRunAll == [pc |-> "idle", i |-> 0, ok |-> 0, called |-> <<>>, behaviour |-> <<>>,
             closed |-> FALSE, out |-> NULL]
NoCapture == [pc |-> "idle", conn |-> FALSE, table |-> FALSE, rows |-> {}, log |-> <<>>]

\* Outside the specifications that move them, the collector, run_all and the
\* webcam capture are at rest, and the file is as its creator left it: in WAL
\* mode if sargassum_collector.get_conn created drift_predictions in it
AtRest ==
    /\ dbfile = NewFile(IF driftTable THEN "wal" ELSE "delete", scoreCols)
    /\ simulate = NoSim
    /\ ra = NoRunAll
    /\ cam = NoCapture

Pt(i) == [k |-> "pt", p |-> i]

\* A row written by the initial version of beaches.py, before _NEW_COLUMNS existed
LegacyRow(id, b, day) ==
    [id |-> id, computed_at |-> 0, simulated_at |-> 0,
     beach_name |-> BEACHES[b].name, beach_lat |-> BEACHES[b].lat,
     beach_lon |-> BEACHES[b].lon, radius_km |-> BEACHES[b].radius_m,
     day_offset |-> day, sample_count |-> 1, n_sample |-> Val(2),
     n_active |-> Val(20), n_particles |-> Val(40), est_count |-> Val(1000),
     risk_level |-> "low"]

\* Stores the score table can be found in: absent, or left by the initial version
ScoreStores ==
    { [cols |-> {}, rows |-> {}],
      [cols |-> BaseCols, rows |-> {LegacyRow(b, b, 0) : b \in Beaches}] }

\* A simulation of second 0 with snapshots for day 0 and day 2
SimStore ==
    { DriftRow(1, 0, 0, Val(40), Val(5000), JArray(<<Pt(1), Pt(3)>>)),
      DriftRow(2, 0, 2, Val(40), Val(10000), JArray(<<Pt(2)>>)) }

\* Stores drift_predictions can be found in: no table (the collector never opened
\* the store), an empty table, one simulation
DriftStores ==
    { [table |-> FALSE, rows |-> {}],
      [table |-> TRUE, rows |-> {}],
      [table |-> TRUE, rows |-> SimStore] }

Init ==
    /\ now = TicksPerSecond
    /\ \E d \in DriftStores : driftTable = d.table /\ drift = d.rows
    /\ \E st \in ScoreStores : scoreCols = st.cols /\ scores = st.rows
    /\ wpc = "idle"
    /\ wconn = NoConn
    /\ wret = NoRet
    /\ wlog = <<>>
    /\ rpc = "idle"
    /\ rconn = NoRead
    /\ calls = [w |-> 0, r |-> 0]
    /\ sb = NoScore
    /\ main = NoMain
    /\ AtRest

----------------------------------------------------------------------------
(* The clock and the collector *)

Tick ==
    /\ now < TicksPerSecond + MaxTicks
    /\ now' = now + 1
    /\ UNCHANGED <<driftTable, drift, scoreCols, scores, wpc, wconn, wret, wlog,
                   rpc, rconn, calls, sb, main, dbfile, simulate, ra, cam>>

\* A SCHEMA without its first statement
SchemaJournalKept(journal) == journal

\* "PRAGMA journal_mode = WAL;", the first statement of the collector's SCHEMA:
\* the journal mode of the file after it
SchemaJournal(journal) == "wal"

\* sargassum_collector.get_conn: executescript(SCHEMA) puts the file in WAL mode
\* and creates drift_predictions
CollectorOpen ==
    /\ ~driftTable
    /\ driftTable' = TRUE
    /\ dbfile' = [dbfile EXCEPT !.journal = SchemaJournal(@),
                                !.first = IF @ = "none" THEN "collector" ELSE @]
    /\ UNCHANGED <<now, drift, scoreCols, scores, wpc, wconn, wret, wlog,
                   rpc, rconn, calls, sb, main, simulate, ra, cam>>

----------------------------------------------------------------------------
(* compute_beach_scores *)

\* conn = _get_conn(db_path), the first statement of compute_beach_scores
OpenWriter ==
    /\ wpc = "idle"
    /\ calls.w < MaxInvocations
    /\ calls' = [calls EXCEPT !.w = @ + 1]
    /\ scoreCols' = GetConnCols(scoreCols)
    /\ scores' = GetConnRows(scoreCols, scores)
    /\ wpc' = "open"
    /\ wconn' = NoConn
    /\ wret' = NoRet
    /\ dbfile' = GetConnFile(dbfile, scoreCols)
    /\ drift' = SchemaDrift(drift)
    /\ UNCHANGED <<now, driftTable, wlog, rpc, rconn, sb, simulate, ra, cam>>

\* compute_beach_scores called as a function
ComputeOpen ==
    /\ OpenWriter
    /\ UNCHANGED main

\* SELECT MAX(simulated_at) FROM drift_predictions, and the early return
LocateInput ==
    /\ wpc = "open"
    /\ IF ~driftTable
       THEN /\ wpc' = "idle"
            /\ wret' = Raised("OperationalError")
            /\ wconn' = NoConn
       ELSE IF drift = {}
       THEN /\ wpc' = "idle"
            /\ wret' = Returned(0)
            /\ wconn' = NoConn
       ELSE /\ wpc' = "located"
            /\ wconn' = [wconn EXCEPT !.simulated_at = SetMax({r.simulated_at : r \in drift}),
                                      !.seen = drift]
            /\ wret' = wret
    /\ UNCHANGED <<now, driftTable, drift, scoreCols, scores, wlog, rpc, rconn, calls, sb, main, dbfile, simulate, ra, cam>>

\* The rows an invocation sets out to insert, with the ids the table will give them
Planned(rows, table) == {WithId(rows[k], MaxId(table) + k) : k \in DOMAIN rows}

\* The snapshot query, the early return, computed_at and the loop building rows_to_insert
SelectSnaps ==
    /\ wpc = "located"
    /\ LET snaps == SelectSnapsQuery(drift, wconn.simulated_at)
           computed_at == Timestamp(now)
           built == SnapLoop(snaps, 1, computed_at, wconn.simulated_at)
       IN  IF snaps = <<>>
           THEN /\ wpc' = "idle"
                /\ wret' = Returned(0)
                /\ wconn' = NoConn
                /\ wlog' = wlog
           ELSE IF built.raised # "none"
           THEN /\ wpc' = "idle"
                /\ wret' = Raised(built.raised)
                /\ wconn' = [NoConn EXCEPT !.snaps = snaps, !.i = built.at]
                /\ wlog' = wlog
           ELSE /\ wpc' = "insert"
                /\ wret' = wret
                /\ wconn' = [wconn EXCEPT !.computed_at = computed_at, !.snaps = snaps,
                                          !.rows = built.rows, !.i = 1]
                /\ wlog' = Append(wlog, [computed_at |-> computed_at,
                                         before |-> scores,
                                         read |-> wconn.seen,
                                         selected |-> drift,
                                         snaps |-> snaps,
                                         rows |-> Planned(built.rows, scores),
                                         n |-> Len(built.rows),
                                         outcome |-> "inserting"])
    /\ UNCHANGED <<now, driftTable, drift, scoreCols, scores, rpc, rconn, calls, sb, main, dbfile, simulate, ra, cam>>

\* A writer in autocommit mode: each INSERT is committed on its own
InsertRowAutocommit ==
    /\ wpc = "insert"
    /\ wconn.i <= Len(wconn.rows)
    /\ scores' = scores \cup {WithId(wconn.rows[wconn.i], MaxId(scores) + 1)}
    /\ wconn' = [wconn EXCEPT !.i = @ + 1]
    /\ UNCHANGED <<now, driftTable, drift, scoreCols, wpc, wret, wlog,
                   rpc, rconn, calls, sb, main, dbfile, simulate, ra, cam>>

\* executemany: one INSERT, inside the transaction the first INSERT opened
InsertRow ==
    /\ wpc = "insert"
    /\ wconn.i <= Len(wconn.rows)
    /\ wconn' = [wconn EXCEPT
                   !.tx = @ \cup {WithId(wconn.rows[wconn.i], MaxId(scores \cup @) + 1)},
                   !.i = @ + 1]
    /\ UNCHANGED <<now, driftTable, drift, scoreCols, scores, wpc, wret, wlog,
                   rpc, rconn, calls, sb, main, dbfile, simulate, ra, cam>>

SetOutcome(log, o) == [log EXCEPT ![Len(log)].outcome = o]

\* conn.commit(); conn.close(); return len(rows_to_insert)
Commit ==
    /\ wpc = "insert"
    /\ wconn.i > Len(wconn.rows)
    /\ scores' = scores \cup wconn.tx
    /\ wpc' = "idle"
    /\ wret' = Returned(Len(wconn.rows))
    /\ wconn' = [wconn EXCEPT !.tx = {}]
    /\ wlog' = SetOutcome(wlog, "committed")
    /\ UNCHANGED <<now, driftTable, drift, scoreCols, rpc, rconn, calls, sb, main, dbfile, simulate, ra, cam>>

\* The insert or the commit fails, or the process is interrupted: the exception
\* leaves compute_beach_scores and the open transaction is rolled back
Fail ==
    /\ wpc = "insert"
    /\ wpc' = "idle"
    /\ wret' = Raised("StorageError")
    /\ wconn' = [wconn EXCEPT !.tx = {}]
    /\ wlog' = SetOutcome(wlog, "failed")
    /\ UNCHANGED <<now, driftTable, drift, scoreCols, scores, rpc, rconn, calls, sb, main, dbfile, simulate, ra, cam>>

----------------------------------------------------------------------------
(* print_report and the dashboard's load_beach_scores *)

\* print_report opens the store with _get_conn, load_beach_scores with a plain connect
OpenReader(kind) ==
    /\ rpc \in {"idle", "done"}
    /\ calls.r < MaxReads
    /\ calls' = [calls EXCEPT !.r = @ + 1]
    /\ scoreCols' = IF kind = "report" THEN GetConnCols(scoreCols) ELSE scoreCols
    /\ scores' = IF kind = "report" THEN GetConnRows(scoreCols, scores) ELSE scores
    /\ rpc' = "max"
    /\ rconn' = [NoRead EXCEPT !.kind = kind]
    /\ dbfile' = IF kind = "report" THEN GetConnFile(dbfile, scoreCols) ELSE dbfile
    /\ drift' = IF kind = "report" THEN SchemaDrift(drift) ELSE drift
    /\ UNCHANGED <<now, driftTable, wpc, wconn, wret, wlog, sb, simulate, ra, cam>>

\* print_report or load_beach_scores called as a function
ReaderOpen(kind) ==
    /\ OpenReader(kind)
    /\ UNCHANGED main

\* SELECT MAX(computed_at) AS last FROM beach_risk_scores
ReaderMax ==
    /\ rpc = "max"
    /\ IF scoreCols = {}
       THEN /\ rpc' = "done"
            /\ rconn' = [rconn EXCEPT !.out = "empty"]
       ELSE IF scores = {}
       THEN /\ rpc' = "done"
            /\ rconn' = [rconn EXCEPT
                           !.out = IF rconn.kind = "report" THEN "guidance" ELSE "empty"]
       ELSE /\ rpc' = "rows"
            /\ rconn' = [rconn EXCEPT !.last = Val(SetMax({r.computed_at : r \in scores}))]
    /\ UNCHANGED <<now, driftTable, drift, scoreCols, scores, wpc, wconn, wret, wlog,
                   calls, sb, main, dbfile, simulate, ra, cam>>

\* A reader that sees the writer's uncommitted rows (read-uncommitted isolation)
ReaderRowsDirty ==
    /\ rpc = "rows"
    /\ rpc' = "render"
    /\ rconn' = [rconn EXCEPT
                   !.rows = {r \in scores \cup wconn.tx : r.computed_at = rconn.last[1]}]
    /\ UNCHANGED <<now, driftTable, drift, scoreCols, scores, wpc, wconn, wret, wlog,
                   calls, sb, main, dbfile, simulate, ra, cam>>

\* The query without its condition on computed_at
ReaderRowsAll ==
    /\ rpc = "rows"
    /\ rpc' = "render"
    /\ rconn' = [rconn EXCEPT !.rows = scores]
    /\ UNCHANGED <<now, driftTable, drift, scoreCols, scores, wpc, wconn, wret, wlog,
                   calls, sb, main, dbfile, simulate, ra, cam>>

\* SELECT ... FROM beach_risk_scores WHERE computed_at = ?
ReaderRows ==
    /\ rpc = "rows"
    /\ rpc' = "render"
    /\ rconn' = [rconn EXCEPT !.rows = {r \in scores : r.computed_at = rconn.last[1]}]
    /\ UNCHANGED <<now, driftTable, drift, scoreCols, scores, wpc, wconn, wret, wlog,
                   calls, sb, main, dbfile, simulate, ra, cam>>

\* Position of a beach name in the order of ORDER BY beach_name
NameRank(name) ==
    CASE name = "Colombier" -> 1 [] name = "Flamands" -> 2 [] name = "Lorient" -> 3
      [] name = "Saint-Jean" -> 4

\* next(x for x in beach_scores if x["day_offset"] == d): the row of a beach and day
\* that comes first in the result of the query, whose order among the rows of one
\* (beach_name, day_offset) is the engine's choice: by ascending or descending id
LineOf(rows, name, d, pick) ==
    LET cand == {r \in rows : r.beach_name = name /\ r.day_offset = d}
    IN  CHOOSE r \in cand : \A q \in cand :
            IF pick = "first" THEN r.id <= q.id ELSE r.id >= q.id

LinesOf(rows, names, pick) ==
    {LineOf(rows, r.beach_name, r.day_offset, pick) : r \in {q \in rows : q.beach_name \in names}}

\* The format specs :5.1f of a line raise TypeError on None
Unformattable(r) == r.regional_score = NULL \/ r.local_score = NULL

\* The loop "for beach_name, beach_scores in by_beach.items()": the lines printed,
\* and the exception that ended the loop, if any
Printed(rows, pick) ==
    LET names == {r.beach_name : r \in rows}
        bad == {n \in names : \E r \in LinesOf(rows, {n}, pick) : Unformattable(r)}
    IN  IF bad = {}
        THEN [raised |-> "none", lines |-> LinesOf(rows, names, pick)]
        ELSE [raised |-> "TypeError",
              lines |-> LinesOf(rows, {n \in names : \A m \in bad : NameRank(n) < NameRank(m)},
                                pick)]

\* print_report after its queries: "Aucun score à afficher." or the table;
\* load_beach_scores returns the rows as a DataFrame
ReaderRender ==
    /\ rpc = "render"
    /\ rpc' = "done"
    /\ \E pick \in {"first", "last"} :
          rconn' = IF rconn.kind = "dashboard"
                   THEN [rconn EXCEPT !.out = "frame", !.shown = rconn.rows]
                   ELSE IF rconn.rows = {}
                   THEN [rconn EXCEPT !.out = "nothing"]
                   ELSE LET p == Printed(rconn.rows, pick)
                        IN  [rconn EXCEPT !.shown = p.lines,
                                          !.out = IF p.raised = "none" THEN "report"
                                                  ELSE p.raised]
    /\ UNCHANGED <<now, driftTable, drift, scoreCols, scores, wpc, wconn, wret, wlog,
                   calls, sb, main, dbfile, simulate, ra, cam>>

Next ==
    \/ Tick
    \/ CollectorOpen
    \/ ComputeOpen
    \/ LocateInput
    \/ SelectSnaps
    \/ InsertRow
    \/ Commit
    \/ Fail
    \/ \E kind \in {"report", "dashboard"} : ReaderOpen(kind)
    \/ ReaderMax
    \/ ReaderRows
    \/ ReaderRender

Spec == Init /\ [][Next]_vars

----------------------------------------------------------------------------
(* Properties of the store under concurrent use (specification Spec) *)

LastBatch == wlog[Len(wlog)]

\* C1: batch atomicity.  While an invocation is between the start of its batch
\* insert and its commit, and after it failed or was interrupted there, a read of
\* beach_risk_scores sees exactly the rows that existed before the invocation; after
\* the commit it sees those rows plus the complete new batch, never a part of it.
BatchAtomicity ==
    wlog # <<>> =>
        /\ LastBatch.outcome \in {"inserting", "failed"} => scores = LastBatch.before
        /\ LastBatch.outcome = "committed" =>
              /\ scores = LastBatch.before \cup LastBatch.rows
              /\ Cardinality(scores) = Cardinality(LastBatch.before) + LastBatch.n

\* C1 witness: an invocation failed after inserting some rows of its batch, but not all
FailedMidBatch ==
    /\ wlog # <<>>
    /\ LastBatch.outcome = "failed"
    /\ wret = Raised("StorageError")
    /\ wconn.i > 1
    /\ wconn.i <= Len(wconn.rows)
    /\ scores = LastBatch.before

\* C2: a reader that has run its two queries holds, for the computed_at it selected,
\* rows of that computed_at only, at least one, and of every batch an invocation
\* wrote either all rows or none: never a proper part of a batch, wherever the
\* writer's inserts and commit fell between the two queries.
ReaderSeesCompleteBatches ==
    (rpc = "done" /\ rconn.last # NULL) =>
        /\ rconn.rows # {}
        /\ \A r \in rconn.rows : r.computed_at = rconn.last[1]
        /\ \A k \in DOMAIN wlog :
              wlog[k].outcome # "failed" =>
                 \/ wlog[k].rows \cap rconn.rows = {}
                 \/ wlog[k].rows \subseteq rconn.rows

\* C2 witness: the reader obtained a whole committed batch while the writer had a
\* later batch partly inserted and not committed
ReadDuringInsert ==
    /\ rpc = "done"
    /\ rconn.out = "report"
    /\ wpc = "insert"
    /\ wconn.tx # {}
    /\ wconn.i <= Len(wconn.rows)
    /\ \E k \in DOMAIN wlog :
          wlog[k].outcome = "committed" /\ wlog[k].rows \subseteq rconn.rows

\* C3 as claimed: whenever drift_predictions offers no snapshot (the table is empty or
\* was never created by the collector), a finished compute_beach_scores has returned
\* 0, raised no error and inserted no row.
NoSnapshotIsNoOp ==
    (drift = {} /\ wpc = "idle" /\ wret.status # "none") =>
        /\ wret = Returned(0)
        /\ wlog = <<>>

\* C6 as claimed: every invocation that inserts rows stamps them with a computed_at no
\* earlier invocation used, so the table has at most one row for a
\* (computed_at, beach_name, day_offset) and the rows of the greatest computed_at are
\* the output of one invocation.
FreshComputedAt ==
    /\ \A j, k \in DOMAIN wlog :
          (j < k /\ wlog[j].outcome = "committed" /\ wlog[k].outcome = "committed")
             => wlog[j].computed_at # wlog[k].computed_at
    /\ \A r, q \in scores :
          (/\ r.computed_at = q.computed_at
           /\ r.beach_name = q.beach_name
           /\ r.day_offset = q.day_offset) => r = q

\* C7: score history is append-only.  Every row of beach_risk_scores is, after any
\* step (an invocation of compute_beach_scores, a report, the opening of the store
\* with its column migration), still in the table with every field value it had.
AppendOnly ==
    [][\A r \in scores : \E q \in scores' :
          \A c \in DOMAIN r : c \in DOMAIN q /\ q[c] = r[c]]_vars

\* C7 witness: rows of the initial version went through the migration and a later
\* batch was committed beside them
LegacyRowsKept ==
    /\ \E r \in scores : r.computed_at = 0 /\ "closest_km" \in DOMAIN r
    /\ wlog # <<>>
    /\ LastBatch.outcome = "committed"

\* C17 as claimed: after the migration of _get_conn added the newer score columns to
\* a table holding rows written before those columns existed (they read NULL there),
\* print_report renders a latest batch made of such rows without failing.
LegacyBatchRenders ==
    (/\ rpc = "done"
     /\ rconn.kind = "report"
     /\ rconn.rows # {}
     /\ \A r \in rconn.rows : r.regional_score = NULL)
        => (rconn.out = "report" /\ rconn.shown # {})

----------------------------------------------------------------------------
(* The command line of beaches.py (specification SpecCli): one run of            *)
(* "python beaches.py [--report | --help]" on the stores it can find             *)

\* The rows compute_beach_scores writes in second t from SimStore into a table
\* holding the rows of base
PriorBatch(t, base) == Planned(SnapLoop(SortedSnaps(SimStore), 1, t, 0).rows, base)

\* Stores the score table can be found in: absent or left by the initial version
\* (ScoreStores), empty, holding one or two earlier batches, a batch of the current
\* second, or rows of the initial version and a later batch
CliScoreStores ==
    ScoreStores \cup
    { [cols |-> AllCols, rows |-> {}],
      [cols |-> AllCols, rows |-> PriorBatch(0, {})],
      [cols |-> AllCols, rows |-> PriorBatch(0, {}) \cup PriorBatch(1, PriorBatch(0, {}))],
      [cols |-> AllCols, rows |-> PriorBatch(2, {})],
      [cols |-> AllCols,
       rows |-> LET old == AddColumns({LegacyRow(b, b, 0) : b \in Beaches}, NewCols)
                IN  old \cup PriorBatch(1, old)] }

InitCli ==
    /\ now = TicksPerSecond * 2
    /\ \E d \in DriftStores : driftTable = d.table /\ drift = d.rows
    /\ \E st \in CliScoreStores : scoreCols = st.cols /\ scores = st.rows
    /\ wpc = "idle"
    /\ wconn = NoConn
    /\ wret = NoRet
    /\ wlog = <<>>
    /\ rpc = "idle"
    /\ rconn = NoRead
    /\ calls = [w |-> MaxInvocations - 1, r |-> MaxReads - 1]
    /\ sb = NoScore
    /\ main = NoMain
    /\ AtRest

\* if "--help" ...: print(__doc__); sys.exit(0).  Otherwise the run goes on to
\* print_report (--report) or to the banner and compute_beach_scores (no flag)
MainStart(flag) ==
    /\ main.pc = "idle"
    /\ main' = [main EXCEPT
                  !.flag = flag,
                  !.before = [drift |-> drift, scores |-> scores],
                  !.pc = CASE flag = "help" -> "exited"
                           [] flag = "report" -> "report"
                           [] flag = "run" -> "compute",
                  !.out = CASE flag = "help" -> <<"usage">>
                            [] flag = "report" -> <<>>
                            [] flag = "run" -> <<"banner">>,
                  !.exit = IF flag = "help" THEN Val(0) ELSE NULL]
    /\ UNCHANGED <<now, driftTable, drift, scoreCols, scores, wpc, wconn, wret, wlog,
                   rpc, rconn, calls, sb, dbfile, simulate, ra, cam>>

\* n = compute_beach_scores(db)
MainCompute ==
    /\ main.pc = "compute"
    /\ OpenWriter
    /\ main' = [main EXCEPT !.pc = "computing"]

\* if n > 0: print the count and go on to print_report; else: print
\* "Aucun score inséré." and reach the end of the script.  An exception that
\* compute_beach_scores raised ends the process with a traceback and status 1.
MainAfterCompute ==
    /\ main.pc = "computing"
    /\ wpc = "idle"
    /\ wret.status # "none"
    /\ main' = IF wret.status = "raised"
               THEN [main EXCEPT !.pc = "exited", !.out = Append(@, "traceback"),
                                 !.exit = Val(1)]
               ELSE IF wret.n > 0
               THEN [main EXCEPT !.pc = "report", !.out = Append(@, "count")]
               ELSE [main EXCEPT !.pc = "exited", !.out = Append(@, "none_inserted"),
                                 !.exit = Val(0)]
    /\ UNCHANGED <<now, driftTable, drift, scoreCols, scores, wpc, wconn, wret, wlog,
                   rpc, rconn, calls, sb, dbfile, simulate, ra, cam>>

\* print_report(db)
MainReport ==
    /\ main.pc = "report"
    /\ OpenReader("report")
    /\ main' = [main EXCEPT !.pc = "reporting"]

\* print_report returned (then sys.exit(0), or the end of the script) or raised
MainAfterReport ==
    /\ main.pc = "reporting"
    /\ rpc = "done"
    /\ main' = IF rconn.out \in {"report", "guidance", "nothing"}
               THEN [main EXCEPT !.pc = "exited", !.out = Append(@, rconn.out),
                                 !.exit = Val(0)]
               ELSE [main EXCEPT !.pc = "exited", !.out = Append(@, "traceback"),
                                 !.exit = Val(1)]
    /\ UNCHANGED <<now, driftTable, drift, scoreCols, scores, wpc, wconn, wret, wlog,
                   rpc, rconn, calls, sb, dbfile, simulate, ra, cam>>

NextCli ==
    \/ \E flag \in {"help", "report", "run"} : MainStart(flag)
    \/ MainCompute
    \/ LocateInput
    \/ SelectSnaps
    \/ InsertRow
    \/ Commit
    \/ MainAfterCompute
    \/ MainReport
    \/ ReaderMax
    \/ ReaderRows
    \/ ReaderRender
    \/ MainAfterReport

SpecCli == InitCli /\ [][NextCli]_vars

\* C18 as claimed: a run with no flag computes a new batch, prints the count
\* inserted, then renders the latest stored report, in that order, and exits with
\* status 0; also when compute_beach_scores returns 0.
RunComputesThenReports ==
    (main.pc = "exited" /\ main.flag = "run" /\ wret.status = "returned") =>
        /\ main.exit = Val(0)
        /\ Len(main.out) = 3
        /\ main.out[1] = "banner"
        /\ main.out[2] \in {"count", "none_inserted"}
        /\ main.out[3] \in {"report", "guidance"}

\* Two tables hold the same rows: each row of one is in the other with the values
\* of every column the first has
SameRows(old, new) ==
    /\ Cardinality(old) = Cardinality(new)
    /\ \A r \in old : \E q \in new : \A c \in DOMAIN r : c \in DOMAIN q /\ q[c] = r[c]

\* C19 as claimed: a run with --report renders the latest stored report without
\* recomputing: compute_beach_scores is not invoked, beach_risk_scores and
\* drift_predictions hold the same rows after the run as before, and the process
\* exits with status 0.
ReportOnlyReads ==
    (main.pc = "exited" /\ main.flag = "report") =>
        /\ main.exit = Val(0)
        /\ Len(main.out) = 1
        /\ main.out[1] \in {"report", "guidance"}
        /\ wlog = <<>>
        /\ wret = NoRet
        /\ drift = main.before.drift
        /\ SameRows(main.before.scores, scores)

\* C20: print_report on a store with no score row prints the guidance message and
\* returns normally; on a store with rows, every line it prints is a row of the table
\* whose computed_at is the greatest computed_at of the table, so no row of an older
\* computed_at is shown.
LatestBatchOnly ==
    (rpc = "done" /\ rconn.kind = "report") =>
        /\ scores = {} <=> rconn.out = "guidance"
        /\ rconn.out = "guidance" => rconn.shown = {}
        /\ (main.pc = "exited" /\ rconn.out = "guidance") => main.exit = Val(0)
        /\ rconn.out = "report" => rconn.shown # {}
        /\ \A r \in rconn.shown :
              /\ r \in scores
              /\ r.computed_at = SetMax({q.computed_at : q \in scores})

\* C20 witness: a report was printed from a table that also holds an older batch
OlderBatchNotShown ==
    /\ rpc = "done"
    /\ rconn.out = "report"
    /\ main.flag = "report"
    /\ rconn.shown # {}
    /\ \E q \in scores : \A r \in rconn.shown : q.computed_at < r.computed_at

----------------------------------------------------------------------------
(* One invocation of compute_beach_scores over the stores it can find           *)
(* (specifications SpecBatch and SpecRows)                                      *)

\* day_offset values of the snapshots of the model (simulate_drift writes 0..5)
OffsetUniverse == {0, 1, 2, 3, 5}
RowsUniverse == {0, 2, 5}

\* n_particles, active_fraction and positions_json of a snapshot as the input
\* contract describes it: an integer, a fraction of [0, 1], an array of pairs
DefaultFields == [np |-> Val(40), af |-> Val(5000), pj |-> JArray(<<Pt(1), Pt(3)>>)]
ContractFields ==
    { DefaultFields,
      [np |-> Val(40), af |-> Val(0), pj |-> JArray(<<>>)],
      [np |-> Val(40), af |-> Val(10000), pj |-> JArray(<<Pt(2)>>)],
      [np |-> Val(10), af |-> Val(7000), pj |-> JArray(<<Pt(4), Pt(3)>>)],
      [np |-> Val(400), af |-> Val(10000), pj |-> JArray(<<Pt(2), Pt(2)>>)] }

\* What the columns admit beyond that: they are nullable TEXT, INTEGER and REAL
\* columns without constraints
OtherFields ==
    { [np |-> Val(40), af |-> Val(5000), pj |-> JNull],
      [np |-> Val(40), af |-> Val(5000), pj |-> JEmpty],
      [np |-> Val(40), af |-> Val(5000), pj |-> JGarbage],
      [np |-> Val(40), af |-> Val(5000), pj |-> JScalar],
      [np |-> NULL, af |-> NULL, pj |-> JArray(<<Pt(1), Pt(3)>>)],
      [np |-> Val(40), af |-> Val(5000), pj |-> JArray(<<Pt(2), [k |-> "short"]>>)],
      [np |-> Val(40), af |-> Val(5000), pj |-> JArray(<<[k |-> "short"]>>)],
      [np |-> Val(40), af |-> Val(5000), pj |-> JArray(<<Pt(2), [k |-> "nonnum"]>>)] }

\* A store: the latest simulation (second 1) holds a snapshot for each day of P, the
\* one for day sp with fields f and copies rows in all; an older simulation
\* (second 0) covering DAY_OFFSETS may be there too
BatchStore(P, sp, f, copies, older) ==
    {DriftRow(10 + d, 1, d, (IF d = sp THEN f ELSE DefaultFields).np,
              (IF d = sp THEN f ELSE DefaultFields).af,
              (IF d = sp THEN f ELSE DefaultFields).pj) : d \in P}
    \cup {DriftRow(20 + c, 1, sp, DefaultFields.np, DefaultFields.af, DefaultFields.pj)
             : c \in 2..copies}
    \cup (IF older
          THEN {DriftRow(1 + DAY_OFFSETS[k], 0, DAY_OFFSETS[k], DefaultFields.np,
                         DefaultFields.af, DefaultFields.pj) : k \in DOMAIN DAY_OFFSETS}
          ELSE {})

\* Stores with one snapshot for a (simulated_at, day_offset), as the collector's
\* simulate_drift leaves them
ContractStores ==
    {BatchStore({}, 0, DefaultFields, 1, older) : older \in BOOLEAN}
    \cup UNION {{BatchStore(P, sp, f, 1, older) : sp \in P, f \in ContractFields,
                                                 older \in BOOLEAN}
                   : P \in SUBSET OffsetUniverse}

\* Stores with whatever rows the schema of drift_predictions admits
AnyStores ==
    UNION {{BatchStore(P, sp, f, copies, older) :
                    sp \in P, f \in ContractFields \cup OtherFields,
                    copies \in 1..MaxCopies, older \in BOOLEAN}
                   : P \in SUBSET RowsUniverse}

InitOver(stores) ==
    /\ now = TicksPerSecond * 2
    /\ driftTable = TRUE
    /\ drift \in stores
    /\ \E st \in ScoreStores : scoreCols = st.cols /\ scores = st.rows
    /\ wpc = "idle"
    /\ wconn = NoConn
    /\ wret = NoRet
    /\ wlog = <<>>
    /\ rpc = "idle"
    /\ rconn = NoRead
    /\ calls = [w |-> MaxInvocations - 1, r |-> 0]
    /\ sb = NoScore
    /\ main = NoMain
    /\ AtRest

InitBatch == InitOver(ContractStores)
InitRows == InitOver(AnyStores)

NextBatch ==
    \/ ComputeOpen
    \/ LocateInput
    \/ SelectSnaps
    \/ InsertRow
    \/ Commit

SpecBatch == InitBatch /\ [][NextBatch]_vars
SpecRows == InitRows /\ [][NextBatch]_vars

----------------------------------------------------------------------------
(* Properties of one invocation (specifications SpecBatch and SpecRows) *)

Finished == wpc = "idle" /\ wret.status # "none"

\* The rows the invocation added to beach_risk_scores
Added == IF wlog = <<>> THEN {} ELSE scores \ LastBatch.before

\* The day offsets among DAY_OFFSETS the latest simulation has snapshots for
Requested ==
    IF drift = {} THEN {}
    ELSE LET latest == SetMax({r.simulated_at : r \in drift})
         IN  {r.day_offset : r \in {q \in drift : q.simulated_at = latest
                                                  /\ InDayOffsets(q.day_offset)}}

RowsOf(rows, d, b) == {r \in rows : r.day_offset = d /\ r.beach_name = BEACHES[b].name}

\* C4: partial coverage.  Whatever set P of day offsets the latest simulation has
\* snapshots for, compute_beach_scores inserts rows for exactly the offsets of P that
\* are in DAY_OFFSETS, one per configured beach, and returns their number,
\* |P \cap DAY_OFFSETS| * n_beaches; it returns 0 and inserts nothing when that set is
\* empty, also when an older simulation covers the requested offsets.
PartialCoverage ==
    Finished =>
        /\ wret.status = "returned"
        /\ wret.n = Cardinality(Requested) * NBeaches
        /\ Cardinality(Added) = wret.n
        /\ {r.day_offset : r \in Added} = Requested
        /\ \A d \in Requested : \A b \in Beaches : Cardinality(RowsOf(Added, d, b)) = 1
        /\ Requested = {} => wlog = <<>>

\* C4 witness: the latest simulation has snapshots for days 0, 2 and 5 only, an older
\* one covers DAY_OFFSETS, and the invocation returned 2 * n_beaches
CoverageOfTwoDays ==
    /\ Finished
    /\ Requested = {0, 2}
    /\ \E r \in drift : r.simulated_at = 0 /\ r.day_offset = 1
    /\ \E r \in drift : r.simulated_at = 1 /\ r.day_offset = 5
    /\ wret = Returned(2 * NBeaches)

\* C5 as claimed: within the rows one invocation inserted, every day offset that
\* appears has exactly one row for every configured beach, whatever rows
\* drift_predictions holds for the latest simulated_at.
OneRowPerBeachAndDay ==
    (Finished /\ wret.status = "returned") =>
        \A d \in {r.day_offset : r \in Added} : \A b \in Beaches :
            Cardinality(RowsOf(Added, d, b)) = 1

AbsentOrUnparseable(snap) == snap.positions_json.kind \in {"null", "empty", "garbage"}

ZeroRow(r) ==
    /\ r.sample_count = 0
    /\ r.n_sample = Val(0)
    /\ r.est_count = Val(0)
    /\ r.local_score = Val(0)
    /\ r.regional_score = Val(0)
    /\ r.closest_km = NULL
    /\ r.density_km2 = Val(0)
    /\ r.risk_level = "none"

\* The snapshots of the invocation with a given day offset
SnapsOfDay(d) == {k \in DOMAIN wconn.snaps : wconn.snaps[k].day_offset = d}

\* C8: a snapshot whose positions_json is absent or is no JSON is an empty position
\* list.  It never makes compute_beach_scores fail; the batch holds for it one row per
\* beach with sample_count 0, zero scores, null closest_km and risk_level none; and the
\* other snapshots keep their rows, one per beach each.
BadJsonIsEmptyList ==
    /\ (Finished /\ wret.status = "raised") =>
          ~AbsentOrUnparseable(wconn.snaps[wconn.i])
    /\ (Finished /\ wret.status = "returned" /\ wret.n > 0) =>
          /\ wret.n = Len(wconn.snaps) * NBeaches
          /\ Cardinality(Added) = wret.n
          /\ \A k \in DOMAIN wconn.snaps :
                /\ \A b \in Beaches :
                      Cardinality(RowsOf(Added, wconn.snaps[k].day_offset, b))
                         = Cardinality(SnapsOfDay(wconn.snaps[k].day_offset))
                /\ AbsentOrUnparseable(wconn.snaps[k]) =>
                      \A b \in Beaches :
                          Cardinality({r \in RowsOf(Added, wconn.snaps[k].day_offset, b) :
                                          ZeroRow(r)})
                             >= Cardinality({j \in SnapsOfDay(wconn.snaps[k].day_offset) :
                                               AbsentOrUnparseable(wconn.snaps[j])})

\* C8 witness: a batch was committed from a snapshot that is no JSON and a later
\* snapshot with points in it
GarbageThenPoints ==
    /\ Finished
    /\ wret.status = "returned"
    /\ \E k \in DOMAIN wconn.snaps :
          /\ wconn.snaps[k].positions_json.kind = "garbage"
          /\ k < Len(wconn.snaps)
          /\ \E r \in Added : r.day_offset = wconn.snaps[k].day_offset /\ ZeroRow(r)
          /\ \E r \in Added : r.day_offset = wconn.snaps[k + 1].day_offset /\ r.sample_count > 0

\* C9 as claimed: malformed entries of a parseable positions_json (fewer than 2
\* elements, or coordinates that are no numbers) are skipped, and compute_beach_scores
\* never aborts the batch because of them: when every selected snapshot holds a JSON
\* array, the invocation returns its rows.
MalformedEntriesSkipped ==
    (/\ Finished
     /\ wconn.snaps # <<>>
     /\ \A k \in DOMAIN wconn.snaps : wconn.snaps[k].positions_json.kind = "array")
        => wret.status = "returned"

\* The order of the risk levels: none < low < medium < high
LevelRank(level) ==
    CASE level = "none" -> 0 [] level = "low" -> 1 [] level = "medium" -> 2
      [] level = "high" -> 3

\* C13: for every row compute_beach_scores persisted, the stored risk_level is
\* risk_label of the stored regional_score of the same row, and of any two rows
\* the one with the larger stored regional_score never has the lower risk level
\* (none < low < medium < high); rows with equal regional_score have equal levels
\* whatever their other fields.
RiskFollowsRegionalScore ==
    /\ \A r \in Added :
          /\ r.regional_score # NULL
          /\ r.risk_level = risk_label(r.regional_score[1])
    /\ \A r, q \in Added :
          r.regional_score[1] >= q.regional_score[1]
             => LevelRank(r.risk_level) >= LevelRank(q.risk_level)

\* C13 witness: one committed batch holds a row of level high and, for another day
\* and a smaller regional score, a row of level low
HighAndLowInOneBatch ==
    /\ Finished
    /\ \E r, q \in Added :
          /\ r.risk_level = "high"
          /\ q.risk_level = "low"
          /\ r.day_offset # q.day_offset
          /\ q.regional_score[1] < r.regional_score[1]

\* C16: every row compute_beach_scores persisted has sample_count <= n_sample and
\* est_count >= 0, for every snapshot with a particle count n_particles >= 0 (or
\* NULL), active_fraction in [0, 1] and any position list.
CountsWithinSample ==
    \A r \in Added :
        /\ r.n_sample # NULL
        /\ r.sample_count <= r.n_sample[1]
        /\ r.sample_count >= 0
        /\ r.est_count # NULL
        /\ r.est_count[1] >= 0

\* C16 witness: a committed row whose sample_count equals n_sample = 2 and whose
\* est_count is the whole active population
WholeSampleInRadius ==
    /\ Finished
    /\ \E r \in Added :
          /\ r.n_sample = Val(2)
          /\ r.sample_count = 2
          /\ r.est_count = Val(40000)
          /\ r.n_active = Val(400)

----------------------------------------------------------------------------
(* _score_beach on its own (specification SpecScore) *)

Ratios == {Ratio(0, 1), Ratio(10, 1), Ratio(20, 1), Ratio(7, 2), Ratio(1, 3), Ratio(1, 2)}

InitScore ==
    /\ now = TicksPerSecond
    /\ driftTable = FALSE
    /\ drift = {}
    /\ scoreCols = {}
    /\ scores = {}
    /\ wpc = "idle"
    /\ wconn = NoConn
    /\ wret = NoRet
    /\ wlog = <<>>
    /\ rpc = "idle"
    /\ rconn = NoRead
    /\ calls = [w |-> 0, r |-> 0]
    /\ main = NoMain
    /\ AtRest
    /\ \E positions \in SeqsUpTo(Entries, MaxLen) : \E b \in Beaches \cup {ScenarioBeach, BoundarySite} :
          \E radius_m \in {0, RadiusOf(b)} : \E ratio \in Ratios :
             sb = [NoScore EXCEPT !.pc = "args", !.positions = positions, !.beach = b,
                                  !.radius_m = radius_m, !.ratio = ratio]

\* s = _score_beach(positions, beach_lat, beach_lon, radius_km, ratio)
ScoreBeachCall ==
    /\ sb.pc = "args"
    /\ sb' = [sb EXCEPT !.pc = "done",
                        !.result = score_beach(sb.positions, sb.beach, sb.radius_m, sb.ratio)]
    /\ UNCHANGED <<now, driftTable, drift, scoreCols, scores, wpc, wconn, wret, wlog,
                   rpc, rconn, calls, main, dbfile, simulate, ra, cam>>

\* The same call with the same sample and beach and twice the ratio
ScoreBeachDouble ==
    /\ sb.pc = "done"
    /\ sb.result.raised = "none"
    /\ sb' = [sb EXCEPT !.pc = "score",
                        !.twice = score_beach(sb.positions, sb.beach, sb.radius_m,
                                              Ratio(2 * sb.ratio.num, sb.ratio.den)),
                        !.score = sb.result.regional_score]
    /\ UNCHANGED <<now, driftTable, drift, scoreCols, scores, wpc, wconn, wret, wlog,
                   rpc, rconn, calls, main, dbfile, simulate, ra, cam>>

\* risk_label(regional_score)
RiskLabelCall ==
    /\ sb.pc = "score"
    /\ sb' = [sb EXCEPT !.pc = "labelled", !.level = risk_label(sb.score)]
    /\ UNCHANGED <<now, driftTable, drift, scoreCols, scores, wpc, wconn, wret, wlog,
                   rpc, rconn, calls, main, dbfile, simulate, ra, cam>>

NextScore ==
    \/ ScoreBeachCall
    \/ ScoreBeachDouble
    \/ RiskLabelCall

SpecScore == InitScore /\ [][NextScore]_vars

\* C10 as claimed: for radius_km = 0 and any sample of pairs, empty or not,
\* _score_beach raises nothing and returns a result whose density_km2 is 0.
ZeroRadiusNeverRaises ==
    (/\ sb.pc = "done"
     /\ sb.radius_m = 0
     /\ \A i \in DOMAIN sb.positions : sb.positions[i].k = "pt")
        => (sb.result.raised = "none" /\ sb.result.density_km2 = 0)

\* risk_label on its own (specification SpecLabel): every score from 0 to MaxScore,
\* in 1/1000
MaxScore == 80000

InitLabel ==
    /\ now = TicksPerSecond
    /\ driftTable = FALSE
    /\ drift = {}
    /\ scoreCols = {}
    /\ scores = {}
    /\ wpc = "idle"
    /\ wconn = NoConn
    /\ wret = NoRet
    /\ wlog = <<>>
    /\ rpc = "idle"
    /\ rconn = NoRead
    /\ calls = [w |-> 0, r |-> 0]
    /\ main = NoMain
    /\ AtRest
    /\ \E x \in 0..MaxScore : sb = [NoScore EXCEPT !.pc = "score", !.score = x]

NextLabel == RiskLabelCall

SpecLabel == InitLabel /\ [][NextLabel]_vars

\* C12: risk_label is a total function of the regional score with fixed thresholds:
\* high for scores >= 75, medium for scores in [25, 75), low for scores in [5, 25),
\* none below 5; in particular 4.999 -> none, 5.0 -> low, 24.999 -> low,
\* 25.0 -> medium, 74.999 -> medium, 75.0 -> high.
RiskLevelThresholds ==
    sb.pc = "labelled" =>
        /\ sb.level \in {"none", "low", "medium", "high"}
        /\ sb.level = "high" <=> sb.score >= 75000
        /\ sb.level = "medium" <=> (sb.score >= 25000 /\ sb.score < 75000)
        /\ sb.level = "low" <=> (sb.score >= 5000 /\ sb.score < 25000)
        /\ sb.level = "none" <=> sb.score < 5000
        /\ sb.score = 4999 => sb.level = "none"
        /\ sb.score = 5000 => sb.level = "low"
        /\ sb.score = 24999 => sb.level = "low"
        /\ sb.score = 25000 => sb.level = "medium"
        /\ sb.score = 74999 => sb.level = "medium"
        /\ sb.score = 75000 => sb.level = "high"

\* C12 witness: the score 75.0 was labelled
LabelledAtHighThreshold ==
    /\ sb.pc = "labelled"
    /\ sb.score = 75000
    /\ sb.level = "high"

\* C11 as claimed: for the site at (17.90, -62.85) with radius_km = 3.0, the sample
\* [[-62.85, 17.90], [-62.90, 17.95]] and ratio = 10, _score_beach yields
\* sample_count = 1, est_count = 10.0, closest_km = 0.0 and regional_score about 19.9,
\* and the risk level derived from that regional score is "medium".
Scenario ==
    /\ sb.beach = ScenarioBeach
    /\ sb.radius_m = RadiusOf(ScenarioBeach)
    /\ sb.positions = <<Pt(2), Pt(3)>>
    /\ sb.ratio = Ratio(10, 1)

ScenarioScores ==
    /\ sb.result.raised = "none"
    /\ sb.result.sample_count = 1
    /\ sb.result.est_count = 1000
    /\ sb.result.closest_km = Val(0)
    /\ sb.result.regional_score >= 19850
    /\ sb.result.regional_score < 19950

ScenarioIsMedium ==
    (Scenario /\ sb.pc = "labelled") => (ScenarioScores /\ sb.level = "medium")

\* C11, amended: in that scenario the scores are as stated (regional_score is
\* 19.883) and the risk level derived from the regional score is "low", the level of
\* the scores in [5, 25).
ScenarioIsLow ==
    /\ (Scenario /\ sb.pc \in {"done", "score", "labelled"}) => ScenarioScores
    /\ (Scenario /\ sb.pc = "labelled") => sb.level = "low"

\* C11 witness: the scenario was scored and its regional score labelled
ScenarioLabelled ==
    /\ Scenario
    /\ sb.pc = "labelled"
    /\ sb.score = 19883

\* C14 as claimed: for every sample and beach, _score_beach with ratio 2r returns
\* est_count, local_score and regional_score (the rounded values it returns, which
\* are the stored ones) that are exactly twice those returned with ratio r.
DoublingIsExact ==
    (sb.pc \in {"score", "labelled"} /\ sb.radius_m > 0) =>
        /\ sb.twice.raised = "none"
        /\ sb.twice.est_count = 2 * sb.result.est_count
        /\ sb.twice.local_score = 2 * sb.result.local_score
        /\ sb.twice.regional_score = 2 * sb.result.regional_score

Abs(x) == IF x < 0 THEN -x ELSE x

\* C14, amended: with ratio 2r, sample_count and closest_km are those of ratio r, and
\* est_count, local_score and regional_score are twice those of ratio r to within one
\* unit of their last stored decimal (0.01 for est_count, 0.001 for the scores); they
\* are exactly twice whenever the value at ratio r needed no rounding.
DoublingUpToRounding ==
    (sb.pc \in {"score", "labelled"} /\ sb.radius_m > 0) =>
        /\ sb.twice.raised = "none"
        /\ sb.twice.sample_count = sb.result.sample_count
        /\ sb.twice.closest_km = sb.result.closest_km
        /\ Abs(sb.twice.est_count - 2 * sb.result.est_count) <= 1
        /\ Abs(sb.twice.local_score - 2 * sb.result.local_score) <= 1
        /\ Abs(sb.twice.regional_score - 2 * sb.result.regional_score) <= 1
        /\ (sb.result.sample_count * sb.ratio.num * 100) % sb.ratio.den = 0
              => sb.twice.est_count = 2 * sb.result.est_count

\* C14 witness: a doubling that is exact (ratio 10 and 20, a point at the centroid)
\* and one that is off by 0.001 have both been computed
DoubledOffByOne ==
    /\ sb.pc = "score"
    /\ sb.radius_m > 0
    /\ sb.result.sample_count > 0
    /\ Abs(sb.twice.local_score - 2 * sb.result.local_score) = 1
    /\ sb.twice.est_count = 2 * sb.result.est_count

\* C15: empty-sample determinism.  For positions = [] and any beach with
\* radius_km > 0 and any ratio, _score_beach returns sample_count 0, est_count 0,
\* local_score 0, regional_score 0, closest_km null and density_km2 0.
EmptySampleIsZero ==
    (sb.pc \in {"done", "score", "labelled"} /\ sb.positions = <<>> /\ sb.radius_m > 0) =>
        sb.result = [raised |-> "none", sample_count |-> 0, est_count |-> 0,
                     local_score |-> 0, regional_score |-> 0, closest_km |-> NULL,
                     density_km2 |-> 0]

\* C15 witness: the empty sample was scored for a beach of radius 2 km with a
\* ratio that is not 0
EmptySampleScored ==
    /\ sb.pc = "done"
    /\ sb.positions = <<>>
    /\ sb.radius_m = 2000
    /\ sb.ratio = Ratio(7, 2)

----------------------------------------------------------------------------
(* sargassum_collector.py: simulate_drift, and the store opened by the three *)
(* programs (specification SpecSim)                                          *)

MaxActive == 3         \* most particles still active in a snapshot of the model
SampleCap == 500       \* "if n_act > 500": the most positions a snapshot stores
SimDays == 6           \* "for day in range(6)"

\* Numbers of particles seeded: the count of AFAI pixels over the threshold, or
\* the size of the fallback grid
Seeds == {MaxActive, 20001}

\* A subsample that keeps the first SampleCap active particles
SampleFirst(n_act) == [i \in 1..(IF n_act > SampleCap THEN SampleCap ELSE n_act) |-> i - 1]

\* The indices (from 0) into the active particles that a snapshot stores:
\* all of them, or np.round(np.linspace(0, n_act - 1, 500)).astype(int)
Sample(n_act) ==
    IF n_act > SampleCap
    THEN [i \in 1..SampleCap |-> RoundDiv((i - 1) * (n_act - 1), SampleCap - 1)]
    ELSE [i \in 1..n_act |-> i - 1]

\* round(n_act / n_particles, 4) in 1/10^4, 0.0 when nothing was seeded
ActiveFraction(n_act, n_particles) ==
    IF n_particles > 0 THEN RoundDiv(n_act * 10000, n_particles) ELSE 0

\* The place of the active particle of index j
ParticleSite(j) == (j % Cardinality(Points)) + 1

\* The row simulate_drift inserts for one day
SnapshotRow(id, simulated_at, day, n_particles, n_act) ==
    LET idx == Sample(n_act)
    IN  DriftRow(id, simulated_at, day, Val(n_particles),
                 Val(ActiveFraction(n_act, n_particles)),
                 JArray([i \in DOMAIN idx |-> Pt(ParticleSite(idx[i]))]))

\* sargassum_webcam_capture._get_db_conn: creates webcam_captures and puts the
\* file in WAL mode
WebcamOpen ==
    /\ ~cam.conn
    /\ cam' = [cam EXCEPT !.conn = TRUE, !.table = TRUE]
    /\ dbfile' = [dbfile EXCEPT !.journal = "wal",
                                !.first = IF @ = "none" THEN "webcam" ELSE @]
    /\ UNCHANGED <<now, driftTable, drift, scoreCols, scores, wpc, wconn, wret, wlog,
                   rpc, rconn, calls, sb, main, simulate, ra>>

\* "--simulate": conn = get_conn(), then simulate_drift up to simulated_at =
\* now_utc(); the seeding or the model run may raise before anything is written
SimStart ==
    /\ simulate.pc = "idle"
    /\ driftTable' = TRUE
    /\ dbfile' = [dbfile EXCEPT !.journal = SchemaJournal(@),
                                !.first = IF @ = "none" THEN "collector" ELSE @]
    /\ \E raises \in BOOLEAN, n \in Seeds, lost \in {0, 1} :
          simulate' = IF raises
                      THEN [simulate EXCEPT !.pc = "raised"]
                      ELSE [simulate EXCEPT !.pc = "days", !.n_particles = n,
                                            !.lost = lost,
                                            !.simulated_at = Timestamp(now)]
    /\ UNCHANGED <<now, drift, scoreCols, scores, wpc, wconn, wret, wlog,
                   rpc, rconn, calls, sb, main, ra, cam>>

\* The particles active on a day of the trajectories the model run produced:
\* MaxActive of them, less those that left the simulation half way
ActiveOn(day, lost) == IF 2 * day >= SimDays THEN MaxActive - lost ELSE MaxActive

\* One turn of "for day in range(6)": the active particles are counted, at most
\* 500 positions kept, the row inserted and committed
SimDay ==
    /\ simulate.pc = "days"
    /\ LET n_act == ActiveOn(simulate.day, simulate.lost) IN
          LET id == MaxId(drift) + 1
              row == SnapshotRow(id, simulate.simulated_at, simulate.day,
                                 simulate.n_particles, n_act)
          IN  /\ drift' = drift \cup {row}
              /\ simulate' = [simulate EXCEPT
                                !.day = @ + 1,
                                !.pc = IF simulate.day + 1 = SimDays THEN "done" ELSE "days",
                                !.log = Append(@, [id |-> id, day |-> simulate.day,
                                                   n_active |-> n_act,
                                                   n_particles |-> simulate.n_particles])]
    /\ UNCHANGED <<now, driftTable, scoreCols, scores, wpc, wconn, wret, wlog,
                   rpc, rconn, calls, sb, main, dbfile, ra, cam>>

\* The file before any program opened it, and a file that holds an earlier
\* simulation and the scores computed from it by either version of beaches.py
InitSim ==
    /\ now = TicksPerSecond
    /\ \E past \in BOOLEAN :
          /\ driftTable = past
          /\ drift = IF past THEN SimStore ELSE {}
          /\ \E st \in ScoreStores :
                /\ (~past => st.rows = {})
                /\ scoreCols = st.cols
                /\ scores = st.rows
    /\ wpc = "idle"
    /\ wconn = NoConn
    /\ wret = NoRet
    /\ wlog = <<>>
    /\ rpc = "idle"
    /\ rconn = NoRead
    /\ calls = [w |-> 0, r |-> 0]
    /\ sb = NoScore
    /\ main = NoMain
    /\ AtRest

\* One invocation of compute_beach_scores, at any point of the simulation
SimCompute ==
    /\ calls.w = 0
    /\ ComputeOpen

NextSim ==
    \/ WebcamOpen
    \/ SimStart
    \/ SimDay
    \/ SimCompute
    \/ LocateInput
    \/ SelectSnaps
    \/ InsertRow
    \/ Commit

SpecSim == InitSim /\ [][NextSim]_vars

\* C21: whenever compute_beach_scores is at its persist step (the batch insert up
\* to its commit), the store file is in WAL journal mode, whichever of the
\* collector, the webcam capture and beaches.py opened the file first.
WalAtPersist == wpc = "insert" => dbfile.journal = "wal"

\* beaches.py opened the file before the collector and the webcam capture did, and
\* a later invocation is at its persist step
PersistAfterBeachesOpenedFirst ==
    /\ wpc = "insert"
    /\ dbfile.first = "beaches"
    /\ ~cam.conn

----------------------------------------------------------------------------
(* Frame of the core on drift_predictions (specification Spec) *)

\* C22: drift_predictions is read-only to the core.  No step of
\* compute_beach_scores (its open, its two queries, its inserts, its commit, its
\* failure, its early returns) and no step of print_report or of the dashboard's
\* read inserts, updates or deletes a row of drift_predictions, or creates or
\* drops the table.
CoreLeavesDriftAlone ==
    [][(wpc' # wpc \/ wconn' # wconn \/ wret' # wret \/ wlog' # wlog \/ calls' # calls
          \/ rpc' # rpc \/ rconn' # rconn \/ scores' # scores \/ scoreCols' # scoreCols)
       => (drift' = drift /\ driftTable' = driftTable)]_vars

\* A failed invocation, a committed one and a printed report over a store that
\* holds snapshots
CoreRanOverSnapshots ==
    /\ drift # {}
    /\ Len(wlog) = 2
    /\ wlog[1].outcome = "failed"
    /\ wlog[2].outcome = "committed"
    /\ rconn.kind = "report"
    /\ rconn.out = "report"

----------------------------------------------------------------------------
(* The migration of _get_conn (specification Spec) *)

\* C24: the migration on open is idempotent.  After any number of opens the
\* columns of beach_risk_scores are those one open of the initial store gives, no
\* column of _NEW_COLUMNS was added by more than one ALTER TABLE, and an open
\* that found the table absent or already migrated ran no ALTER TABLE.
MigrationIdempotent ==
    /\ \A c \in NewCols : dbfile.alters[c] <= 1
    /\ dbfile.opens >= 1 => scoreCols = GetConnCols(dbfile.cols0)
    /\ (dbfile.opens >= 1 /\ (dbfile.pre = {} \/ NewCols \subseteq dbfile.pre))
          => dbfile.last = {}

\* A store left by the initial version, opened three times
LegacyStoreOpenedThrice ==
    /\ dbfile.cols0 = BaseCols
    /\ dbfile.opens = 3
    /\ \A c \in NewCols : dbfile.alters[c] = 1
    /\ dbfile.last = {}

----------------------------------------------------------------------------
(* compute_beach_scores against a running simulation (specification SpecSim) *)

\* MAX(simulated_at) over the rows an invocation found in drift_predictions
ReadMax(e) == SetMax({r.simulated_at : r \in e.read})

\* C25: a batch is computed from one simulation.  All the rows an invocation sets
\* out to insert carry the same simulated_at, the greatest one in drift_predictions
\* when the invocation ran its MAX query, and every snapshot it scored belongs to
\* that simulation, also when another simulation is written meanwhile.
BatchOfOneSimulation ==
    \A k \in DOMAIN wlog :
        /\ \A r \in wlog[k].rows : r.simulated_at = ReadMax(wlog[k])
        /\ \A j \in DOMAIN wlog[k].snaps : wlog[k].snaps[j].simulated_at = ReadMax(wlog[k])

\* A committed batch of the earlier simulation, whose snapshot query ran when the
\* first snapshots of a new simulation were already in the table
NewSimulationWrittenMeanwhile ==
    /\ Len(wlog) = 1
    /\ wlog[1].outcome = "committed"
    /\ \E r \in wlog[1].selected :
          /\ r.simulated_at > ReadMax(wlog[1])
          /\ r.day_offset = 0

\* The snapshots of the running simulation among rows
OfSimulation(rows) == {r \in rows : r.simulated_at = simulate.simulated_at}

\* The days of DAY_OFFSETS below d
RequestedBelow(d) == {DAY_OFFSETS[k] : k \in {j \in DOMAIN DAY_OFFSETS : DAY_OFFSETS[j] < d}}

\* The batch holds one row for each beach and each day of days, and no other row
Covers(e, days) ==
    /\ e.n = NBeaches * Cardinality(days)
    /\ Cardinality(e.rows) = e.n
    /\ \A r \in e.rows : r.day_offset \in days
    /\ \A b \in 1..NBeaches, d \in days :
          \E r \in e.rows : r.beach_name = BEACHES[b].name /\ r.day_offset = d

\* C26: simulate_drift commits its six daily snapshots one at a time under one
\* simulated_at.  An invocation that read the table when the six were there
\* inserts one row for each beach and each of the four days 0..3; an invocation
\* whose snapshot query ran when only the first d were there inserts one row for
\* each beach and each requested day below d; and once it has found a
\* simulation, an invocation goes on to its insert and to its commit.
SnapshotsOneAtATime ==
    /\ [](simulate.pc \in {"days", "done"} =>
            /\ Len(simulate.log) = simulate.day
            /\ Cardinality(OfSimulation(drift)) = simulate.day
            /\ \A i \in DOMAIN simulate.log :
                  \E r \in OfSimulation(drift) :
                      r.id = simulate.log[i].id /\ r.day_offset = i - 1)
    /\ [](\A k \in DOMAIN wlog :
            (simulate.pc \in {"days", "done"} /\ ReadMax(wlog[k]) = simulate.simulated_at)
               => Covers(wlog[k],
                         RequestedBelow(Cardinality(OfSimulation(wlog[k].selected)))))
    /\ [][/\ drift' # drift =>
                \E r \in drift' \ drift :
                    /\ drift' = drift \cup {r}
                    /\ r.simulated_at = simulate.simulated_at
                    /\ r.day_offset = simulate.day
          /\ (wpc = "located" /\ wpc' # wpc) => wpc' = "insert"
          /\ (wpc = "insert" /\ wpc' # wpc) => wret'.status = "returned"]_vars

\* A committed batch computed when two of the six snapshots were committed
BatchBetweenTwoCommits ==
    /\ Len(wlog) = 1
    /\ wlog[1].outcome = "committed"
    /\ ReadMax(wlog[1]) = simulate.simulated_at
    /\ Cardinality(OfSimulation(wlog[1].selected)) = 2
    /\ wlog[1].n = 2 * NBeaches
    /\ simulate.pc = "done"

\* The entry of simulate_drift's log for the snapshot of a day
LoggedDay(day) == simulate.log[day + 1]

\* C27: the active count survives the hand-off.  For every row computed from a
\* snapshot that simulate_drift wrote with n_act active particles, the n_active
\* that compute_beach_scores reconstructs from n_particles and the stored
\* active_fraction equals n_act, and est_count is not greater than n_act.
ActiveCountSurvives ==
    \A k \in DOMAIN wlog :
        (simulate.pc \in {"days", "done"} /\ ReadMax(wlog[k]) = simulate.simulated_at)
           => \A r \in wlog[k].rows :
                 /\ r.n_active = Val(LoggedDay(r.day_offset).n_active)
                 /\ r.est_count[1] <= 100 * LoggedDay(r.day_offset).n_active

----------------------------------------------------------------------------
(* The positions a snapshot stores (specification SpecSample) *)

MaxCount == 1200       \* most active particles of the model

\* simulate_drift inside a turn of its loop, n_act counted
InitSample ==
    /\ now = TicksPerSecond
    /\ driftTable = TRUE
    /\ drift = {}
    /\ scoreCols = {}
    /\ scores = {}
    /\ wpc = "idle"
    /\ wconn = NoConn
    /\ wret = NoRet
    /\ wlog = <<>>
    /\ rpc = "idle"
    /\ rconn = NoRead
    /\ calls = [w |-> 0, r |-> 0]
    /\ sb = NoScore
    /\ main = NoMain
    /\ dbfile = NewFile("wal", {})
    /\ ra = NoRunAll
    /\ cam = NoCapture
    /\ \E n \in 0..MaxCount : simulate = [NoSim EXCEPT !.pc = "counted", !.n_act = n]

\* "if n_act > 500: idx = ...; lo_act, la_act = lo_act[idx], la_act[idx]"
Subsample ==
    /\ simulate.pc = "counted"
    /\ simulate' = [simulate EXCEPT !.pc = "sampled", !.idx = Sample(simulate.n_act)]
    /\ UNCHANGED <<now, driftTable, drift, scoreCols, scores, wpc, wconn, wret, wlog,
                   rpc, rconn, calls, sb, main, dbfile, ra, cam>>

NextSample == Subsample

SpecSample == InitSample /\ [][NextSample]_vars

\* C23: a snapshot stores at most 500 positions.  With n_act <= 500 they are the
\* n_act active particles, each once; with n_act > 500 they are 500 different
\* active particles, the first and the last among them, taken in order at strides
\* that differ by at most one particle.
SampleBounded ==
    simulate.pc = "sampled" =>
        LET n == simulate.n_act
            idx == simulate.idx
            stride == (n - 1) \div (SampleCap - 1)
        IN  /\ Len(idx) <= SampleCap
            /\ \A i \in DOMAIN idx : idx[i] \in 0..(n - 1)
            /\ n <= SampleCap => idx = [i \in 1..n |-> i - 1]
            /\ n > SampleCap =>
                  /\ Len(idx) = SampleCap
                  /\ idx[1] = 0
                  /\ idx[SampleCap] = n - 1
                  /\ \A i \in 1..(SampleCap - 1) :
                        /\ idx[i] < idx[i + 1]
                        /\ idx[i + 1] - idx[i] \in {stride, stride + 1}

\* A subsample of more than twice 500 active particles
SubsampledLargeCount ==
    /\ simulate.pc = "sampled"
    /\ simulate.n_act = 2 * SampleCap + 1
    /\ Len(simulate.idx) = SampleCap

----------------------------------------------------------------------------
(* closest_km against the radius (specification SpecScore) *)

\* The sample holds an entry of 2 elements or more
HasValidPoint == \E i \in DOMAIN sb.positions : sb.positions[i].k # "short"

----------------------------------------------------------------------------
(* sargassum_collector.py: run_all (specification SpecRunAll) *)

COLLECTORS == <<"collect_noaa_sir", "collect_noaa_afai", "collect_foresea",
                "collect_sargassum_monitoring", "collect_copernicus",
                "collect_aviso_duacs">>

\* What a call fn(conn) may do: return True or False, or raise
Behaviours == {"True", "False", "EnvironmentError", "ImportError", "Exception"}

Returns(behaviour) == behaviour \in {"True", "False"}

\* The body of the loop without its try statement
RunCollectorUnguarded(r, name, behaviour) ==
    IF Returns(behaviour)
    THEN [r EXCEPT !.called = Append(@, name), !.behaviour = Append(@, behaviour),
                   !.ok = @ + 1, !.i = @ + 1]
    ELSE [r EXCEPT !.called = Append(@, name), !.behaviour = Append(@, behaviour),
                   !.pc = "raised"]

\* The body of "for name, fn in COLLECTORS": try: fn(conn); ok += 1, and the
\* three except clauses, which print and go on
RunCollector(r, name, behaviour) ==
    [r EXCEPT !.called = Append(@, name), !.behaviour = Append(@, behaviour),
              !.ok = IF Returns(behaviour) THEN @ + 1 ELSE @,
              !.i = @ + 1]

\* run_all up to its loop: conn = get_conn(db_path), which may fail; ok = 0
RunAllStart ==
    /\ ra.pc = "idle"
    /\ \E opened \in BOOLEAN :
          IF opened
          THEN /\ ra' = [ra EXCEPT !.pc = "loop", !.i = 1]
               /\ driftTable' = TRUE
               /\ dbfile' = [dbfile EXCEPT !.journal = SchemaJournal(@),
                                           !.first = IF @ = "none" THEN "collector" ELSE @]
          ELSE /\ ra' = [ra EXCEPT !.pc = "raised"]
               /\ UNCHANGED <<driftTable, dbfile>>
    /\ UNCHANGED <<now, drift, scoreCols, scores, wpc, wconn, wret, wlog,
                   rpc, rconn, calls, sb, main, simulate, cam>>

\* One turn of the loop
RunAllCollector ==
    /\ ra.pc = "loop"
    /\ ra.i <= Len(COLLECTORS)
    /\ \E behaviour \in Behaviours : ra' = RunCollector(ra, COLLECTORS[ra.i], behaviour)
    /\ UNCHANGED <<now, driftTable, drift, scoreCols, scores, wpc, wconn, wret, wlog,
                   rpc, rconn, calls, sb, main, dbfile, simulate, cam>>

\* conn.close() and the line "ok/len(COLLECTORS) sources OK"
RunAllFinish ==
    /\ ra.pc = "loop"
    /\ ra.i > Len(COLLECTORS)
    /\ ra' = [ra EXCEPT !.pc = "done", !.closed = TRUE, !.out = Val(ra.ok)]
    /\ UNCHANGED <<now, driftTable, drift, scoreCols, scores, wpc, wconn, wret, wlog,
                   rpc, rconn, calls, sb, main, dbfile, simulate, cam>>

InitRunAll ==
    /\ now = TicksPerSecond
    /\ driftTable = FALSE
    /\ drift = {}
    /\ scoreCols = {}
    /\ scores = {}
    /\ wpc = "idle"
    /\ wconn = NoConn
    /\ wret = NoRet
    /\ wlog = <<>>
    /\ rpc = "idle"
    /\ rconn = NoRead
    /\ calls = [w |-> 0, r |-> 0]
    /\ sb = NoScore
    /\ main = NoMain
    /\ AtRest

NextRunAll ==
    \/ RunAllStart
    \/ RunAllCollector
    \/ RunAllFinish

SpecRunAll == InitRunAll /\ [][NextRunAll]_vars

\* The number of calls of a sequence of behaviours that returned
RECURSIVE CountReturned(_)
CountReturned(bs) ==
    IF bs = <<>> THEN 0
    ELSE (IF Returns(bs[Len(bs)]) THEN 1 ELSE 0) + CountReturned(SubSeq(bs, 1, Len(bs) - 1))

\* C29: run_all isolates the failures of the collectors.  Once the store is
\* open, the collectors are called in the order of COLLECTORS, each once,
\* whatever the earlier ones raised; the loop is never left by an exception; the
\* count printed is the number of calls that returned; and the connection is
\* closed after the last collector, not before.
RunAllIsolates ==
    /\ ra.called = SubSeq(COLLECTORS, 1, Len(ra.called))
    /\ ra.pc = "raised" => ra.called = <<>>
    /\ ra.closed => ra.pc = "done"
    /\ ra.pc = "done" =>
          /\ ra.called = COLLECTORS
          /\ ra.out = Val(CountReturned(ra.behaviour))
          /\ ra.closed

\* A run in which three collectors raised, one of each kind, and three returned
ThreeOfSixRaised ==
    /\ ra.pc = "done"
    /\ ra.behaviour = <<"EnvironmentError", "True", "ImportError", "False",
                        "Exception", "True">>
    /\ ra.out = Val(3)

----------------------------------------------------------------------------
(* sargassum_webcam_capture.py: capture_image (specification SpecCam) *)

MaxCaptures == 3       \* calls of capture_image in a run of the model
MinBytes == 5000       \* "len(r.content) > 5000"

\* What requests.get may give: a response with its status and the size of its
\* body, or an exception
Responses ==
    { [raised |-> FALSE, status |-> 200, size |-> MinBytes + 1],
      [raised |-> FALSE, status |-> 200, size |-> MinBytes],
      [raised |-> FALSE, status |-> 500, size |-> MinBytes + 1],
      [raised |-> TRUE, status |-> 0, size |-> 0] }

\* A row of webcam_captures (the columns the branches differ in)
CaptureRow(id, success, file_path, http_status, file_size) ==
    [id |-> id, success |-> success, file_path |-> file_path,
     http_status |-> http_status, file_size |-> file_size]

\* The try statement of capture_image with a connection supplied: the row it
\* inserts and commits, and the value returned.  written tells whether
\* filename.write_bytes succeeded.
CaptureTry(resp, written, id) ==
    IF resp.raised
    THEN [ret |-> "False", row |-> CaptureRow(id, 0, NULL, NULL, NULL)]
    ELSE IF resp.status = 200 /\ resp.size > MinBytes
    THEN IF written
         THEN [ret |-> "True",
               row |-> CaptureRow(id, 1, Val("filename"), Val(resp.status), Val(resp.size))]
         ELSE [ret |-> "False", row |-> CaptureRow(id, 0, NULL, NULL, NULL)]
    ELSE [ret |-> "False",
          row |-> CaptureRow(id, 0, NULL, Val(resp.status), Val(resp.size))]

\* capture_image(camera, db_conn) up to its try statement:
\* save_dir.mkdir(parents=True, exist_ok=True), which raises OSError when the
\* directory cannot be made; nothing catches it
CaptureStart ==
    /\ cam.pc = "idle"
    /\ cam.conn
    /\ Len(cam.log) < MaxCaptures
    /\ \E made \in BOOLEAN :
          cam' = IF made
                 THEN [cam EXCEPT !.pc = "try"]
                 ELSE [cam EXCEPT !.log = Append(@, [ret |-> "OSError", added |-> {},
                                                     status |-> NULL, size |-> NULL])]
    /\ UNCHANGED <<now, driftTable, drift, scoreCols, scores, wpc, wconn, wret, wlog,
                   rpc, rconn, calls, sb, main, dbfile, simulate, ra>>

\* The try statement: the request, the file, the INSERT and its commit, the return
CaptureFetch ==
    /\ cam.pc = "try"
    /\ \E resp \in Responses, written \in BOOLEAN :
          LET id == MaxId(cam.rows) + 1
              out == CaptureTry(resp, written, id)
          IN  cam' = [cam EXCEPT
                        !.pc = "idle",
                        !.rows = @ \cup {out.row},
                        !.log = Append(@, [ret |-> out.ret, added |-> {out.row},
                                           status |-> IF resp.raised THEN NULL
                                                      ELSE Val(resp.status),
                                           size |-> IF resp.raised THEN NULL
                                                    ELSE Val(resp.size)])]
    /\ UNCHANGED <<now, driftTable, drift, scoreCols, scores, wpc, wconn, wret, wlog,
                   rpc, rconn, calls, sb, main, dbfile, simulate, ra>>

InitCam ==
    /\ now = TicksPerSecond
    /\ driftTable = FALSE
    /\ drift = {}
    /\ scoreCols = {}
    /\ scores = {}
    /\ wpc = "idle"
    /\ wconn = NoConn
    /\ wret = NoRet
    /\ wlog = <<>>
    /\ rpc = "idle"
    /\ rconn = NoRead
    /\ calls = [w |-> 0, r |-> 0]
    /\ sb = NoScore
    /\ main = NoMain
    /\ AtRest

NextCam ==
    \/ WebcamOpen
    \/ CaptureStart
    \/ CaptureFetch

SpecCam == InitCam /\ [][NextCam]_vars

\* C30 as claimed: with a connection supplied, every call of capture_image
\* records exactly one row in webcam_captures; its success is 1 exactly when the
\* call returns True, which takes HTTP 200 and a body of more than 5000 bytes;
\* and its file_path is non-null exactly when success is 1.
EveryCaptureRecorded ==
    \A k \in DOMAIN cam.log :
        /\ Cardinality(cam.log[k].added) = 1
        /\ cam.log[k].added \subseteq cam.rows
        /\ \A r \in cam.log[k].added :
              /\ (r.success = 1) <=> (cam.log[k].ret = "True")
              /\ (r.file_path # NULL) <=> (r.success = 1)
        /\ cam.log[k].ret = "True" =>
              (cam.log[k].status = Val(200) /\ cam.log[k].size[1] > MinBytes)

====
